---------------------------- MODULE Spec2Model ----------------------------
(***************************************************************************)
(* A model of VideOCR's subtitle pipeline (src/CLI/videocr): the frame     *)
(* sampler and aggregator of Video.run_ocr, the per-zone merge passes of   *)
(* Video._process_single_zone, the cross-zone merge and the text           *)
(* finalizer of PredictedSubtitle.                                         *)
(*                                                                         *)
(* Conventions.  A text is a sequence of character codes.  Times are       *)
(* whole milliseconds; fps is a whole number dividing 1000, so 1000/fps    *)
(* is exact.  Confidences are whole percents (the engine's score * 100).   *)
(* midpoint_y is kept in half pixels (2*y + height) to stay integral.      *)
(***************************************************************************)
EXTENDS Integers, Sequences, FiniteSets, TLC

VARIABLES
    video,              \* the Video object's fields set by __init__
    args,               \* the parameters of get_subtitles
    validated_zones,    \* Video.validated_zones
    pred_frames_zone1,  \* Video.pred_frames_zone1
    pred_frames_zone2,  \* Video.pred_frames_zone2
    pred_subs,          \* Video.pred_subs
    pc,                 \* position of the running method
    zone_call,          \* which _process_single_zone call is active (1 or 2)
    pred_todo,          \* frames the Pass 1 loop has still to visit
    subs,               \* _process_single_zone: subs
    filtered_subs,      \* _process_single_zone: filtered_subs still to visit
    cleaned_subs,       \* _process_single_zone: cleaned_subs
    subs_zone1,         \* _generate_subtitles: subs_zone1
    subs_zone2,         \* _generate_subtitles: subs_zone2
    all_subs,           \* _merge_dual_zone_subtitles: all_subs still to visit
    merged_subs,        \* _merge_dual_zone_subtitles: merged_subs
    srt_lines,          \* get_subtitles: srt_lines
    run_args,           \* the parameters of run_ocr
    os_env,             \* the process id, the live processes, the temp directory
    ocr_start,          \* run_ocr: ocr_start
    ocr_end,            \* run_ocr: ocr_end
    temp_dir,           \* run_ocr: temp_dir ({} before mkdtemp)
    decoded,            \* frames taken from the Capture's frame_iterator
    loop_i,             \* run_ocr: i of the sampling loop
    prev_samples,       \* run_ocr: prev_samples (<<>> stands for None)
    frame_paths,        \* run_ocr: frame_paths (file names inside temp_dir)
    ocr_outputs,        \* run_ocr: ocr_outputs
    exit_code,          \* run_ocr: exit_code
    frame_predictions_by_zone, \* run_ocr: frame_predictions_by_zone
    engine_state,       \* the engine process: "none", "running" or "exited"
    engine_code,        \* the code the engine process exited with
    engine_out,         \* lines the engine has still to write to its stdout
    engine_err,         \* lines the engine has still to write to its stderr
    stdout_pipe,        \* lines written to process.stdout and not yet read
    stderr_pipe,        \* lines written to process.stderr and not yet read
    reader_pc,          \* run_ocr's position between Popen and the exit-code test
    stderr_thread,      \* stderr_thread: "none", "reading" or "finished"
    stdout_lines,       \* run_ocr: stdout_lines
    stderr_lines,       \* run_ocr: stderr_lines
    current_image,      \* run_ocr: current_image (<<>> stands for None)
    source,             \* the video file: its metadata and its frames' timestamps
    ctor_time_end,      \* the time_end given to Video.__init__ (<<>> for None)
    props,              \* get_video_properties: properties
    mapper_pc,          \* position inside get_video_properties
    map_i,              \* get_video_properties: i of the mapping loop
    map_decoded,        \* frames taken from get_video_properties' frame_iter
    stopped_early,      \* get_video_properties: stopped_early
    platform_system,    \* platform.system()
    sweep_pc,           \* position inside the sweep of leftover directories
    sweep_todo,         \* names of os.listdir(base_temp) still to visit
    deleted_live,       \* directories removed while their process was running
    cli_args,           \* videocr_cli.main: args (<<>> without a command line)
    pixels,             \* the strips of the video's frames (<<>>: left open)
    batch_queue,        \* VideOCR.py: batch_queue, the jobs of the GUI
    is_processing,      \* window.is_processing (FALSE while the attribute is unset)
    cancelled_by_user,  \* window.cancelled_by_user ("absent" after del)
    videocr_process_pid, \* window._videocr_process_pid (0 while unset)
    gui_queue,          \* gui_queue: messages of the workers not yet polled
    disabled,           \* the disabled state of the buttons
    run_text,           \* the text of -BTN-RUN-
    pause_text,         \* the text of -BTN-PAUSE- and -BTN-BATCH-PAUSE-
    video_path,         \* a video is loaded in the window
    workers,            \* the threads running run_batch_thread
    gui_pc              \* the event loop: "poll", "event" ("none" without a window)

mergeVars == <<video, args, validated_zones, pred_frames_zone1, pred_frames_zone2,
               pred_subs, zone_call, pred_todo, subs, filtered_subs, cleaned_subs,
               subs_zone1, subs_zone2, all_subs, merged_subs, srt_lines>>

runVars == <<run_args, os_env, ocr_start, ocr_end, temp_dir, decoded, loop_i,
             prev_samples, frame_paths, ocr_outputs, exit_code,
             frame_predictions_by_zone>>

pipeVars == <<engine_state, engine_code, engine_out, engine_err, stdout_pipe,
              stderr_pipe, reader_pc, stderr_thread, stdout_lines, stderr_lines,
              current_image>>

ctorVars == <<source, ctor_time_end, props, mapper_pc, map_i, map_decoded,
              stopped_early>>

sweepVars == <<platform_system, sweep_pc, sweep_todo, deleted_live>>

inputVars == <<cli_args, pixels>>

guiVars == <<batch_queue, is_processing, cancelled_by_user, videocr_process_pid,
             gui_queue, disabled, run_text, pause_text, video_path, workers, gui_pc>>

vars == <<pc, mergeVars, runVars, pipeVars, ctorVars, sweepVars, inputVars, guiVars>>

---------------------------------------------------------------------------
(* Character codes and texts *)

SP == 32
NL == 10

Max2(a, b) == IF a >= b THEN a ELSE b

SetMax(S) == CHOOSE x \in S : \A y \in S : y <= x

Last(s) == s[Len(s)]

\* frames.sort(key=lambda f: f.start_index): Python's sort is stable
SortFramesByStart(s) ==
    LET n == Len(s)
        pos(i) == Cardinality({j \in 1..n :
                        \/ s[j].start_index < s[i].start_index
                        \/ (s[j].start_index = s[i].start_index /\ j < i)}) + 1
    IN  [p \in 1..n |-> s[CHOOSE i \in 1..n : pos(i) = p]]

\* str.replace(' ', '')
RECURSIVE StripSpaces(_)
StripSpaces(t) ==
    IF t = <<>> THEN <<>>
    ELSE IF Head(t) = SP THEN StripSpaces(Tail(t))
    ELSE <<Head(t)>> \o StripSpaces(Tail(t))

---------------------------------------------------------------------------
(* thefuzz.fuzz.partial_ratio, as the library computes it *)

RECURSIVE LCSLen(_, _)
LCSLen(a, b) ==
    IF a = <<>> \/ b = <<>> THEN 0
    ELSE IF Head(a) = Head(b) THEN 1 + LCSLen(Tail(a), Tail(b))
    ELSE Max2(LCSLen(Tail(a), b), LCSLen(a, Tail(b)))

\* int(round(100 * 2*lcs / (len(a)+len(b)))), round-half-even as Python's round
Ratio(a, b) ==
    LET t == Len(a) + Len(b)
        n == 200 * LCSLen(a, b)
        q == IF t = 0 THEN 100 ELSE n \div t
        r == IF t = 0 THEN 0 ELSE n % t
    IN  IF 2 * r > t THEN q + 1
        ELSE IF 2 * r = t THEN q + (q % 2)
        ELSE q

CharSet(s) == {s[i] : i \in DOMAIN s}

\* best alignment of the shorter string s1 inside s2 (len(s1) <= len(s2)):
\* prefixes shorter than s1, full windows, and suffixes of s2
PartialRatioImpl(s1, s2) ==
    LET l1 == Len(s1)
        l2 == Len(s2)
        cs == CharSet(s1)
        pre == {Ratio(s1, SubSeq(s2, 1, i)) : i \in {k \in 1..(l1 - 1) : s2[k] \in cs}}
        win == {Ratio(s1, SubSeq(s2, i + 1, i + l1)) :
                    i \in {k \in 0..(l2 - l1 - 1) : s2[k + l1] \in cs}}
        suf == {Ratio(s1, SubSeq(s2, i + 1, l2)) :
                    i \in {k \in (l2 - l1)..(l2 - 1) : s2[k + 1] \in cs}}
    IN  SetMax(pre \cup win \cup suf \cup {0})

PartialRatio(a, b) ==
    IF a = <<>> /\ b = <<>> THEN 100
    ELSE IF Len(a) < Len(b) THEN PartialRatioImpl(a, b)
    ELSE IF Len(a) > Len(b) THEN PartialRatioImpl(b, a)
    ELSE Max2(PartialRatioImpl(a, b), PartialRatioImpl(b, a))

---------------------------------------------------------------------------
(* models.py: PredictedSubtitle *)

\* PredictedSubtitle.__init__
PredictedSubtitle(frames, zone_index) ==
    LET kept == SortFramesByStart(SelectSeq(frames, LAMBDA f : f.confidence > 0))
        best == CHOOSE i \in DOMAIN kept :
                    /\ \A j \in DOMAIN kept : kept[j].confidence <= kept[i].confidence
                    /\ \A j \in 1..(i - 1) : kept[j].confidence < kept[i].confidence
    IN  [frames     |-> kept,
         zone_index |-> zone_index,
         text       |-> IF kept # <<>> THEN kept[best].text ELSE <<>>,
         text_zones |-> <<zone_index>>]

index_start(sub) == IF sub.frames # <<>> THEN sub.frames[1].start_index ELSE 0

index_end(sub) == IF sub.frames # <<>> THEN Last(sub.frames).end_index ELSE 0

\* sorted(subs1 + subs2, key=lambda s: s.index_start)
SortSubsByStart(s) ==
    LET n == Len(s)
        pos(i) == Cardinality({j \in 1..n :
                        \/ index_start(s[j]) < index_start(s[i])
                        \/ (index_start(s[j]) = index_start(s[i]) /\ j < i)}) + 1
    IN  [p \in 1..n |-> s[CHOOSE i \in 1..n : pos(i) = p]]

\* a similarity test that needs more than the threshold
is_similar_to_strictly(self, other) ==
    PartialRatio(StripSpaces(self.text), StripSpaces(other.text)) > args.sim_threshold

\* PredictedSubtitle.is_similar_to
is_similar_to(self, other) ==
    PartialRatio(StripSpaces(self.text), StripSpaces(other.text)) >= args.sim_threshold

\* Counter / defaultdict keys of finalize_text, in insertion order
RECURSIVE DistinctTexts(_)
DistinctTexts(frames) ==
    IF frames = <<>> THEN <<>>
    ELSE LET rest == DistinctTexts(SubSeq(frames, 1, Len(frames) - 1))
             t    == Last(frames).text
         IN  IF \E i \in DOMAIN rest : rest[i] = t THEN rest ELSE Append(rest, t)

TextCount(frames, t) == Cardinality({i \in DOMAIN frames : frames[i].text = t})

RECURSIVE SumConf(_, _)
SumConf(frames, t) ==
    IF frames = <<>> THEN 0
    ELSE (IF Head(frames).text = t THEN Head(frames).confidence ELSE 0)
         + SumConf(Tail(frames), t)

\* a finalizer that trusts confidence before frequency
finalize_text_by_confidence(sub) ==
    LET best == CHOOSE i \in DOMAIN sub.frames :
                    \A j \in DOMAIN sub.frames :
                        sub.frames[j].confidence <= sub.frames[i].confidence
    IN  [sub EXCEPT !.text = sub.frames[best].text]

\* PredictedSubtitle.finalize_text with post_processing off
finalize_text(sub) ==
    LET keys       == DistinctTexts(sub.frames)
        max_count  == SetMax({TextCount(sub.frames, keys[i]) : i \in DOMAIN keys})
        candidates == SelectSeq(keys, LAMBDA t : TextCount(sub.frames, t) = max_count)
        \* mean(a) < mean(b), cross-multiplied
        MeanLess(a, b) == SumConf(sub.frames, a) * TextCount(sub.frames, b)
                            < SumConf(sub.frames, b) * TextCount(sub.frames, a)
        best == CHOOSE i \in DOMAIN candidates :
                    /\ \A j \in DOMAIN candidates : ~MeanLess(candidates[i], candidates[j])
                    /\ \A j \in 1..(i - 1) : MeanLess(candidates[j], candidates[i])
    IN  [sub EXCEPT !.text = IF Len(candidates) = 1 THEN candidates[1]
                             ELSE candidates[best]]

---------------------------------------------------------------------------
(* video.py: time arithmetic *)

Get(f, k, default) == IF k \in DOMAIN f THEN f[k] ELSE default

\* times whose end is the entry of index_end when index_end + 1 has none
get_subtitle_ms_times_without_estimate(sub) ==
    LET first_frame_ms   == Get(video.frame_timestamps, 0, 0)
        correction_delta == first_frame_ms - video.start_time_offset_ms
        start_time_ms    == Get(video.frame_timestamps, index_start(sub), 0)
        end_time_ms      == IF (index_end(sub) + 1) \in DOMAIN video.frame_timestamps
                            THEN video.frame_timestamps[index_end(sub) + 1]
                            ELSE Get(video.frame_timestamps, index_end(sub), 0)
    IN  <<start_time_ms - correction_delta, end_time_ms - correction_delta>>

\* Video._get_subtitle_ms_times
get_subtitle_ms_times(sub) ==
    LET first_frame_ms   == Get(video.frame_timestamps, 0, 0)
        correction_delta == first_frame_ms - video.start_time_offset_ms
        start_time_ms    == Get(video.frame_timestamps, index_start(sub), 0)
        end_time_ms      == IF (index_end(sub) + 1) \in DOMAIN video.frame_timestamps
                            THEN video.frame_timestamps[index_end(sub) + 1]
                            ELSE Get(video.frame_timestamps, index_end(sub), 0)
                                    + (1000 \div video.fps)
    IN  <<start_time_ms - correction_delta, end_time_ms - correction_delta>>

\* a duration test that drops a Subtitle lasting exactly the minimum
DurationAboveMin(sub) ==
    IF video.is_vfr
    THEN LET t == get_subtitle_ms_times(sub)
         IN  t[2] - t[1] > args.min_subtitle_duration_ms
    ELSE (index_end(sub) + 1 - index_start(sub)) * 1000
            > args.min_subtitle_duration_ms * video.fps

\* Video._get_subtitle_duration_sec >= min_subtitle_duration_sec
DurationAtLeastMin(sub) ==
    IF video.is_vfr
    THEN LET t == get_subtitle_ms_times(sub)
         IN  t[2] - t[1] >= args.min_subtitle_duration_ms
    ELSE (index_end(sub) + 1 - index_start(sub)) * 1000
            >= args.min_subtitle_duration_ms * video.fps

\* a gap test whose frame threshold lacks the + 1
is_gap_mergeable_without_slack(last_sub, next_sub) ==
    IF video.is_vfr
    THEN get_subtitle_ms_times(next_sub)[1] - get_subtitle_ms_times(last_sub)[2]
            <= args.max_merge_gap_ms
    ELSE index_start(next_sub) - index_end(last_sub)
            <= (args.max_merge_gap_ms * video.fps) \div 1000

\* a gap test that always counts frames
is_gap_mergeable_by_frames(last_sub, next_sub) ==
    index_start(next_sub) - index_end(last_sub)
        <= ((args.max_merge_gap_ms * video.fps) \div 1000) + 1

\* Video._is_gap_mergeable
is_gap_mergeable(last_sub, next_sub) ==
    IF video.is_vfr
    THEN LET last_end_ms   == get_subtitle_ms_times(last_sub)[2]
             next_start_ms == get_subtitle_ms_times(next_sub)[1]
             gap_ms        == next_start_ms - last_end_ms
         IN  gap_ms <= args.max_merge_gap_ms
    ELSE LET max_frame_merge_diff == ((args.max_merge_gap_ms * video.fps) \div 1000) + 1
             gap_frames == index_start(next_sub) - index_end(last_sub)
         IN  gap_frames <= max_frame_merge_diff

---------------------------------------------------------------------------
(* video.py: Video._generate_subtitles and Video._process_single_zone *)

CurrentPredFrames == IF zone_call = 1 THEN pred_frames_zone1 ELSE pred_frames_zone2

\* _process_single_zone returns `result` to _generate_subtitles, which goes on
\* to the second call or, after it, to choosing pred_subs
ReturnFromZone(result) ==
    /\ subs_zone1' = IF zone_call = 1 THEN result ELSE subs_zone1
    /\ subs_zone2' = IF zone_call = 2 THEN result ELSE subs_zone2
    /\ zone_call' = 2
    /\ pc' = IF zone_call = 1 THEN "zone_begin" ELSE "combine"

\* a Pass 1 iteration that puts the new frame in front and does not re-sort
Pass1BodyPrepending(ss, frame) ==
    LET new_sub  == PredictedSubtitle(<<frame>>, frame.zone_index)
        last_sub == Last(ss)
    IN  IF new_sub.text = <<>> THEN ss
        ELSE IF ss # <<>> /\ is_gap_mergeable(last_sub, new_sub)
                          /\ is_similar_to(last_sub, new_sub)
        THEN [ss EXCEPT ![Len(ss)].frames = new_sub.frames \o @]
        ELSE Append(ss, new_sub)

\* a Pass 1 iteration without the test of new_sub.text
Pass1BodyKeepingEmpty(ss, frame) ==
    LET new_sub  == [PredictedSubtitle(<<frame>>, frame.zone_index)
                        EXCEPT !.frames = <<frame>>]
        last_sub == Last(ss)
    IN  IF ss # <<>> /\ is_gap_mergeable(last_sub, new_sub)
                     /\ is_similar_to(last_sub, new_sub)
        THEN [ss EXCEPT ![Len(ss)].frames =
                    SortFramesByStart(@ \o new_sub.frames)]
        ELSE Append(ss, new_sub)

\* a Pass 1 iteration that takes the text again from the joined frames
Pass1BodyRetexting(ss, frame) ==
    LET new_sub  == PredictedSubtitle(<<frame>>, frame.zone_index)
        last_sub == Last(ss)
    IN  IF new_sub.text = <<>> THEN ss
        ELSE IF ss # <<>> /\ is_gap_mergeable(last_sub, new_sub)
                          /\ is_similar_to(last_sub, new_sub)
        THEN [ss EXCEPT ![Len(ss)] =
                    PredictedSubtitle(@.frames \o new_sub.frames, @.zone_index)]
        ELSE Append(ss, new_sub)

\* one iteration of the Pass 1 loop over a frame
Pass1Body(ss, frame) ==
    LET new_sub  == PredictedSubtitle(<<frame>>, frame.zone_index)
        last_sub == Last(ss)
    IN  IF new_sub.text = <<>> THEN ss
        ELSE IF ss # <<>> /\ is_gap_mergeable(last_sub, new_sub)
                          /\ is_similar_to(last_sub, new_sub)
        THEN [ss EXCEPT ![Len(ss)].frames =
                    SortFramesByStart(@ \o new_sub.frames)]
        ELSE Append(ss, new_sub)

\* a Pass 3 iteration that never joins
Pass3BodyWithoutMerge(cs, next_sub) == Append(cs, next_sub)

\* a Pass 3 iteration that joins and keeps the joined Subtitle in the list
Pass3BodyKeepingBoth(cs, next_sub) ==
    LET last_sub == Last(cs)
    IN  IF is_gap_mergeable(last_sub, next_sub) /\ is_similar_to(last_sub, next_sub)
        THEN Append([cs EXCEPT ![Len(cs)] =
                        finalize_text([@ EXCEPT !.frames =
                            SortFramesByStart(@ \o next_sub.frames)])],
                    next_sub)
        ELSE Append(cs, next_sub)

\* one iteration of the Pass 3 loop over a surviving Subtitle
Pass3Body(cs, next_sub) ==
    LET last_sub == Last(cs)
    IN  IF is_gap_mergeable(last_sub, next_sub) /\ is_similar_to(last_sub, next_sub)
        THEN [cs EXCEPT ![Len(cs)] =
                finalize_text([@ EXCEPT !.frames =
                    SortFramesByStart(@ \o next_sub.frames)])]
        ELSE Append(cs, next_sub)

\* entry of _process_single_zone: the empty-input return, else the sorted walk
ProcessZoneBegin ==
    /\ pc = "zone_begin"
    /\ IF CurrentPredFrames = <<>>
       THEN /\ ReturnFromZone(<<>>)
            /\ UNCHANGED <<pred_todo, subs>>
       ELSE /\ pred_todo' = SortFramesByStart(CurrentPredFrames)
            /\ subs' = <<>>
            /\ pc' = "pass1"
            /\ UNCHANGED <<subs_zone1, subs_zone2, zone_call>>
    /\ UNCHANGED <<video, args, validated_zones, pred_frames_zone1, pred_frames_zone2,
                   pred_subs, filtered_subs, cleaned_subs, all_subs, merged_subs>>
    /\ UNCHANGED runVars
    /\ UNCHANGED srt_lines
    /\ UNCHANGED pipeVars
    /\ UNCHANGED <<ctorVars, sweepVars>>
    /\ UNCHANGED inputVars
    /\ UNCHANGED guiVars

Pass1Step ==
    /\ pc = "pass1"
    /\ pred_todo # <<>>
    /\ subs' = Pass1Body(subs, Head(pred_todo))
    /\ pred_todo' = Tail(pred_todo)
    /\ UNCHANGED <<pc, video, args, validated_zones, pred_frames_zone1, pred_frames_zone2,
                   pred_subs, zone_call, filtered_subs, cleaned_subs, subs_zone1,
                   subs_zone2, all_subs, merged_subs>>
    /\ UNCHANGED runVars
    /\ UNCHANGED srt_lines
    /\ UNCHANGED pipeVars
    /\ UNCHANGED <<ctorVars, sweepVars>>
    /\ UNCHANGED inputVars
    /\ UNCHANGED guiVars

\* for sub in subs: sub.finalize_text(post_processing)
FinalizeSubs ==
    /\ pc = "pass1"
    /\ pred_todo = <<>>
    /\ subs' = [i \in DOMAIN subs |-> finalize_text(subs[i])]
    /\ pc' = "filter"
    /\ UNCHANGED <<video, args, validated_zones, pred_frames_zone1, pred_frames_zone2,
                   pred_subs, zone_call, pred_todo, filtered_subs, cleaned_subs,
                   subs_zone1, subs_zone2, all_subs, merged_subs>>
    /\ UNCHANGED runVars
    /\ UNCHANGED srt_lines
    /\ UNCHANGED pipeVars
    /\ UNCHANGED <<ctorVars, sweepVars>>
    /\ UNCHANGED inputVars
    /\ UNCHANGED guiVars

\* Pass 2, and the start of Pass 3 (or the empty return)
FilterSubs ==
    /\ pc = "filter"
    /\ LET kept == SelectSeq(subs, DurationAtLeastMin)
       IN  IF kept = <<>>
           THEN /\ ReturnFromZone(<<>>)
                /\ UNCHANGED <<filtered_subs, cleaned_subs>>
           ELSE /\ cleaned_subs' = <<Head(kept)>>
                /\ filtered_subs' = Tail(kept)
                /\ pc' = "pass3"
                /\ UNCHANGED <<subs_zone1, subs_zone2, zone_call>>
    /\ UNCHANGED <<video, args, validated_zones, pred_frames_zone1, pred_frames_zone2,
                   pred_subs, pred_todo, subs, all_subs, merged_subs>>
    /\ UNCHANGED runVars
    /\ UNCHANGED srt_lines
    /\ UNCHANGED pipeVars
    /\ UNCHANGED <<ctorVars, sweepVars>>
    /\ UNCHANGED inputVars
    /\ UNCHANGED guiVars

Pass3Step ==
    /\ pc = "pass3"
    /\ filtered_subs # <<>>
    /\ cleaned_subs' = Pass3Body(cleaned_subs, Head(filtered_subs))
    /\ filtered_subs' = Tail(filtered_subs)
    /\ UNCHANGED <<pc, video, args, validated_zones, pred_frames_zone1, pred_frames_zone2,
                   pred_subs, zone_call, pred_todo, subs, subs_zone1, subs_zone2,
                   all_subs, merged_subs>>
    /\ UNCHANGED runVars
    /\ UNCHANGED srt_lines
    /\ UNCHANGED pipeVars
    /\ UNCHANGED <<ctorVars, sweepVars>>
    /\ UNCHANGED inputVars
    /\ UNCHANGED guiVars

\* return cleaned_subs
ZoneReturn ==
    /\ pc = "pass3"
    /\ filtered_subs = <<>>
    /\ ReturnFromZone(cleaned_subs)
    /\ UNCHANGED <<video, args, validated_zones, pred_frames_zone1, pred_frames_zone2,
                   pred_subs, pred_todo, subs, filtered_subs, cleaned_subs, all_subs,
                   merged_subs>>
    /\ UNCHANGED runVars
    /\ UNCHANGED srt_lines
    /\ UNCHANGED pipeVars
    /\ UNCHANGED <<ctorVars, sweepVars>>
    /\ UNCHANGED inputVars
    /\ UNCHANGED guiVars

\* a cross-zone step that joins the texts in scan order
DualBodyInScanOrder(ms, current_sub) ==
    LET last_sub == Last(ms)
    IN  IF index_start(current_sub) <= index_end(last_sub)
        THEN [ms EXCEPT ![Len(ms)] =
                [@ EXCEPT
                   !.text = last_sub.text \o <<NL>> \o current_sub.text,
                   !.text_zones = last_sub.text_zones \o current_sub.text_zones,
                   !.frames = SortFramesByStart(@ \o current_sub.frames)]]
        ELSE Append(ms, current_sub)

\* a cross-zone step that never joins
DualBodyWithoutJoin(ms, current_sub) == Append(ms, current_sub)

\* one iteration of the cross-zone loop
DualBody(ms, current_sub) ==
    LET last_sub == Last(ms)
        last_zone_info    == validated_zones[last_sub.zone_index + 1]
        current_zone_info == validated_zones[current_sub.zone_index + 1]
        above == current_zone_info.midpoint_y < last_zone_info.midpoint_y
    IN  IF index_start(current_sub) <= index_end(last_sub)
        THEN [ms EXCEPT ![Len(ms)] =
                [@ EXCEPT
                   !.text = IF above THEN current_sub.text \o <<NL>> \o last_sub.text
                            ELSE last_sub.text \o <<NL>> \o current_sub.text,
                   !.text_zones = IF above THEN current_sub.text_zones \o last_sub.text_zones
                                  ELSE last_sub.text_zones \o current_sub.text_zones,
                   !.frames = SortFramesByStart(@ \o current_sub.frames)]]
        ELSE Append(ms, current_sub)

\* _generate_subtitles after both calls: the choice of pred_subs, and for two
\* non-empty zones the sorted start of _merge_dual_zone_subtitles
Combine ==
    /\ pc = "combine"
    /\ IF subs_zone1 # <<>> /\ subs_zone2 # <<>>
       THEN LET sorted == SortSubsByStart(subs_zone1 \o subs_zone2)
            IN  /\ merged_subs' = <<Head(sorted)>>
                /\ all_subs' = Tail(sorted)
                /\ pc' = "dual"
                /\ UNCHANGED pred_subs
       ELSE /\ pred_subs' = IF subs_zone1 # <<>> THEN subs_zone1
                            ELSE IF subs_zone2 # <<>> THEN subs_zone2
                            ELSE <<>>
            /\ pc' = "done"
            /\ UNCHANGED <<merged_subs, all_subs>>
    /\ UNCHANGED <<video, args, validated_zones, pred_frames_zone1, pred_frames_zone2,
                   zone_call, pred_todo, subs, filtered_subs, cleaned_subs, subs_zone1,
                   subs_zone2>>
    /\ UNCHANGED runVars
    /\ UNCHANGED srt_lines
    /\ UNCHANGED pipeVars
    /\ UNCHANGED <<ctorVars, sweepVars>>
    /\ UNCHANGED inputVars
    /\ UNCHANGED guiVars

DualMergeStep ==
    /\ pc = "dual"
    /\ all_subs # <<>>
    /\ merged_subs' = DualBody(merged_subs, Head(all_subs))
    /\ all_subs' = Tail(all_subs)
    /\ UNCHANGED <<pc, video, args, validated_zones, pred_frames_zone1, pred_frames_zone2,
                   pred_subs, zone_call, pred_todo, subs, filtered_subs, cleaned_subs,
                   subs_zone1, subs_zone2>>
    /\ UNCHANGED runVars
    /\ UNCHANGED srt_lines
    /\ UNCHANGED pipeVars
    /\ UNCHANGED <<ctorVars, sweepVars>>
    /\ UNCHANGED inputVars
    /\ UNCHANGED guiVars

\* return merged_subs
DualReturn ==
    /\ pc = "dual"
    /\ all_subs = <<>>
    /\ pred_subs' = merged_subs
    /\ pc' = "done"
    /\ UNCHANGED <<video, args, validated_zones, pred_frames_zone1, pred_frames_zone2,
                   zone_call, pred_todo, subs, filtered_subs, cleaned_subs, subs_zone1,
                   subs_zone2, all_subs, merged_subs>>
    /\ UNCHANGED runVars
    /\ UNCHANGED srt_lines
    /\ UNCHANGED pipeVars
    /\ UNCHANGED <<ctorVars, sweepVars>>
    /\ UNCHANGED inputVars
    /\ UNCHANGED guiVars

---------------------------------------------------------------------------
(* Inputs: stitched frame lists as run_ocr leaves them *)

T_AB  == <<65, 66>>
T_ABC == <<65, 66, 67>>
T_C   == <<67>>
T_Q   == <<81>>
T_A_B == <<65, SP, 66>>
HELLO == <<72, 69, 76, 76, 79>>

\* a frame kind: what the engine read on a kept image and how many frame
\* indices the image stands for (itself and the unsampled ones after it)
Kinds(texts, confs, spans) ==
    [text : texts, confidence : confs, span : spans]
        \cup [text : {<<>>}, confidence : {100}, span : spans]

RECURSIVE SpanSum(_, _)
SpanSum(kinds, k) == IF k = 0 THEN 0 ELSE kinds[k].span + SpanSum(kinds, k - 1)

\* the stitched PredictedFrames of one zone: contiguous from ocr_start
StitchedFrames(kinds, zone_index, first_index) ==
    [k \in DOMAIN kinds |->
        [start_index |-> first_index + SpanSum(kinds, k - 1),
         end_index   |-> first_index + SpanSum(kinds, k) - 1,
         zone_index  |-> zone_index,
         text        |-> kinds[k].text,
         confidence  |-> kinds[k].confidence]]

KindSeqs(K, lo, hi) == UNION {[1..n -> K] : n \in lo..hi}

CfrVideo(fps) ==
    [is_vfr |-> FALSE, fps |-> fps, frame_timestamps |-> <<>>,
     start_time_offset_ms |-> 0]

\* run_ocr's entry of validated_zones for a crop zone; midpoint_y is kept
\* doubled (2*y + height) so that it stays an integer with the same order
ValidatedZone(zone) ==
    [x_start    |-> zone.x,
     y_start    |-> zone.y,
     x_end      |-> zone.x + zone.width,
     y_end      |-> zone.y + zone.height,
     midpoint_y |-> 2 * zone.y + zone.height]

CropZone(x, y, w, h) == [x |-> x, y |-> y, width |-> w, height |-> h]

OneZone == <<ValidatedZone(CropZone(0, 80, 100, 40))>>

\* the locals of _generate_subtitles and its callees before they run
MergeLocalsEmpty ==
    /\ zone_call = 1
    /\ pred_subs = <<>>
    /\ pred_todo = <<>>
    /\ subs = <<>>
    /\ filtered_subs = <<>>
    /\ cleaned_subs = <<>>
    /\ subs_zone1 = <<>>
    /\ subs_zone2 = <<>>
    /\ all_subs = <<>>
    /\ merged_subs = <<>>
    /\ srt_lines = <<>>

\* the Video object is constructed: get_video_properties is not running
AlreadyConstructed ==
    /\ source = <<>>
    /\ ctor_time_end = <<>>
    /\ props = <<>>
    /\ mapper_pc = "none"
    /\ map_i = 0
    /\ map_decoded = 0
    /\ stopped_early = FALSE

\* run_ocr is used without the command line
NoCommandLine == cli_args = <<>>

\* what the frames show is left open: a comparison of two strips can go
\* either way
ContentOpen == pixels = <<>>

\* the command line runs without the GUI: no window, no job queue
NoWindow ==
    /\ batch_queue = <<>>
    /\ is_processing = FALSE
    /\ cancelled_by_user = "absent"
    /\ videocr_process_pid = 0
    /\ gui_queue = <<>>
    /\ disabled = <<>>
    /\ run_text = "Run"
    /\ pause_text = "Pause"
    /\ video_path = FALSE
    /\ workers = <<>>
    /\ gui_pc = "none"

\* the sweep of leftover directories is not running
NoSweep ==
    /\ platform_system = "Linux"
    /\ sweep_pc = "idle"
    /\ sweep_todo = {}
    /\ deleted_live = {}

\* no engine process, no pipes, no reader
NoEngine ==
    /\ engine_state = "none"
    /\ engine_code = 0
    /\ engine_out = <<>>
    /\ engine_err = <<>>
    /\ stdout_pipe = <<>>
    /\ stderr_pipe = <<>>
    /\ reader_pc = "none"
    /\ stderr_thread = "none"
    /\ stdout_lines = <<>>
    /\ stderr_lines = <<>>
    /\ current_image = <<>>

\* run_ocr has returned: its locals are gone and its scratch directory is
\* removed
RunOcrOver ==
    /\ run_args = <<>>
    /\ os_env = [pid |-> 1, live_pids |-> {1}, base_temp |-> {}]
    /\ ocr_start = 0
    /\ ocr_end = 0
    /\ temp_dir = {}
    /\ decoded = 0
    /\ loop_i = 0
    /\ prev_samples = <<>>
    /\ frame_paths = <<>>
    /\ ocr_outputs = <<>>
    /\ exit_code = 0
    /\ frame_predictions_by_zone = <<>>
    /\ NoEngine
    /\ AlreadyConstructed
    /\ NoSweep
    /\ NoCommandLine
    /\ ContentOpen
    /\ NoWindow

\* the state at the call of get_subtitles, before _generate_subtitles runs
MergeStart ==
    /\ pc = "zone_begin"
    /\ MergeLocalsEmpty
    /\ RunOcrOver

---------------------------------------------------------------------------
(* utils.py: time strings.  A time string "m:s" is kept as the pair        *)
(* <<minutes, milliseconds>>; the empty string is <<>>.                     *)

Min2(a, b) == IF a <= b THEN a ELSE b

Abs(x) == IF x < 0 THEN 0 - x ELSE x

\* utils.get_ms_from_time_str
get_ms_from_time_str(time_str) == time_str[1] * 60000 + time_str[2]

\* utils.get_frame_index
get_frame_index(time_str, fps) ==
    LET total_ms == time_str[1] * 60000 + time_str[2]
    IN  IF total_ms < 0 THEN 0 ELSE (total_ms * fps) \div 1000

\* utils.get_frame_index_from_ms: the first index at the least distance
get_frame_index_from_ms(frame_timestamps, target_ms) ==
    CHOOSE k \in DOMAIN frame_timestamps :
        \A j \in DOMAIN frame_timestamps :
            \/ Abs(frame_timestamps[k] - target_ms) < Abs(frame_timestamps[j] - target_ms)
            \/ /\ Abs(frame_timestamps[k] - target_ms) = Abs(frame_timestamps[j] - target_ms)
               /\ k <= j

---------------------------------------------------------------------------
(* video.py: the names of the sampled images *)

RECURSIVE Digits(_)
\* str(n) for n >= 0, as a sequence of decimal digits
Digits(n) == IF n < 10 THEN <<n>> ELSE Append(Digits(n \div 10), n % 10)

\* the format spec 0{padding}d applied to the digits d
ZeroPad(d, padding) ==
    IF Len(d) >= padding THEN d
    ELSE [k \in 1..padding |->
            IF k <= padding - Len(d) THEN 0 ELSE d[k - (padding - Len(d))]]

\* f"frame_{frame_index:0{padding}d}_zone{zone_idx}.jpg"
FrameFilename(frame_index, padding, zone_idx) ==
    [digits |-> ZeroPad(Digits(frame_index), padding), zone |-> zone_idx]

RECURSIVE ParseInt(_)
\* int(match.group(1)) on the digits matched by (\d+)
ParseInt(d) ==
    IF d = <<>> THEN 0
    ELSE 10 * ParseInt(SubSeq(d, 1, Len(d) - 1)) + d[Len(d)]

---------------------------------------------------------------------------
(* models.py: PredictedFrames.  An ocr_result is the list of detections    *)
(* [bounding_box, text, score] of one image, a bounding_box the four       *)
(* corners <<x, y>> of the word in the order the engine gives them.         *)

\* the axis-parallel box with the corners in the engine's order: top left,
\* top right, bottom right, bottom left
Box(x_min, y_min, x_max, y_max) ==
    <<<<x_min, y_min>>, <<x_max, y_min>>, <<x_max, y_max>>, <<x_min, y_max>>>>

\* min(p[1] for p in bounding_box) and max(p[1] for p in bounding_box)
MinY(bounding_box) ==
    CHOOSE y \in {bounding_box[k][2] : k \in DOMAIN bounding_box} :
        \A k \in DOMAIN bounding_box : y <= bounding_box[k][2]

MaxY(bounding_box) ==
    CHOOSE y \in {bounding_box[k][2] : k \in DOMAIN bounding_box} :
        \A k \in DOMAIN bounding_box : y >= bounding_box[k][2]

\* utils.is_on_same_line; the midpoints (y_min + y_max) / 2 are compared
\* doubled
is_on_same_line(word1, word2) ==
    LET y_min1 == MinY(word1.bounding_box)
        y_max1 == MaxY(word1.bounding_box)
        y_min2 == MinY(word2.bounding_box)
        y_max2 == MaxY(word2.bounding_box)
        midpoint1 == y_min1 + y_max1
        midpoint2 == y_min2 + y_max2
    IN  \/ 2 * y_min1 < midpoint2 /\ midpoint2 < 2 * y_max1
        \/ 2 * y_min2 < midpoint1 /\ midpoint1 < 2 * y_max2

\* a placement that takes the last line the word fits
LastFittingLine(word, lines_of_words) ==
    IF \E k \in DOMAIN lines_of_words : is_on_same_line(word, lines_of_words[k][1])
    THEN CHOOSE k \in DOMAIN lines_of_words :
            /\ is_on_same_line(word, lines_of_words[k][1])
            /\ \A j \in DOMAIN lines_of_words :
                    j > k => ~is_on_same_line(word, lines_of_words[j][1])
    ELSE 0

\* the inner loop over lines_of_words: the position of the first line whose
\* first word is on the same line as the word, 0 if there is none
FirstFittingLine(word, lines_of_words) ==
    IF \E k \in DOMAIN lines_of_words : is_on_same_line(word, lines_of_words[k][1])
    THEN CHOOSE k \in DOMAIN lines_of_words :
            /\ is_on_same_line(word, lines_of_words[k][1])
            /\ \A j \in 1..(k - 1) : ~is_on_same_line(word, lines_of_words[j][1])
    ELSE 0

\* the loop `for word in all_words` over the words not yet placed
RECURSIVE GroupWords(_, _)
GroupWords(words_left, lines_of_words) ==
    IF words_left = <<>> THEN lines_of_words
    ELSE LET word == Head(words_left)
             k    == FirstFittingLine(word, lines_of_words)
         IN  GroupWords(Tail(words_left),
                IF k = 0 THEN Append(lines_of_words, <<word>>)
                ELSE [lines_of_words EXCEPT ![k] = Append(@, word)])

\* the sort key of a line: min(p[1] for p in line[0].bounding_box)
LineKey(line) == MinY(line[1].bounding_box)

\* the sort key of a word: word.bounding_box[0][0]
WordKey(word) == word.bounding_box[1][1]

RECURSIVE SortLines(_)
\* lines_of_words.sort(key=...): ascending, lines of equal key in the order
\* they had
SortLines(lines_of_words) ==
    IF lines_of_words = <<>> THEN <<>>
    ELSE LET front  == SortLines(SubSeq(lines_of_words, 1, Len(lines_of_words) - 1))
             line   == lines_of_words[Len(lines_of_words)]
             before == Cardinality({k \in DOMAIN front : LineKey(front[k]) <= LineKey(line)})
         IN  SubSeq(front, 1, before) \o <<line>> \o SubSeq(front, before + 1, Len(front))

RECURSIVE SortWords(_)
\* line.sort(key=...): ascending, words of equal key in the order they had
SortWords(line) ==
    IF line = <<>> THEN <<>>
    ELSE LET front  == SortWords(SubSeq(line, 1, Len(line) - 1))
             word   == line[Len(line)]
             before == Cardinality({k \in DOMAIN front : WordKey(front[k]) <= WordKey(word)})
         IN  SubSeq(front, 1, before) \o <<word>> \o SubSeq(front, before + 1, Len(front))

RECURSIVE JoinTexts(_, _)
\* separator.join(texts)
JoinTexts(texts, separator) ==
    IF texts = <<>> THEN <<>>
    ELSE IF Len(texts) = 1 THEN texts[1]
    ELSE texts[1] \o separator \o JoinTexts(Tail(texts), separator)

RECURSIVE SumOfConfidences(_)
SumOfConfidences(words) ==
    IF words = <<>> THEN 0 ELSE Head(words).confidence + SumOfConfidences(Tail(words))

RECURSIVE Flatten(_)
\* the words of the lines, line after line
Flatten(lines) == IF lines = <<>> THEN <<>> ELSE Head(lines) \o Flatten(Tail(lines))

\* the words that pass the confidence threshold, as PredictedText
KeptWords(ocr_result, conf_threshold) ==
    LET Kept(word_pred) == word_pred.score >= conf_threshold
        kept_preds == SelectSeq(ocr_result, Kept)
    IN  [k \in DOMAIN kept_preds |->
            [bounding_box |-> kept_preds[k].bounding_box,
             confidence   |-> kept_preds[k].score,
             text         |-> kept_preds[k].text]]

\* the confidence of a frame is kept in whole percents: the mean of the word
\* confidences, which is whole on the inputs of this model
PredictedFrames(index, ocr_result, conf_threshold, zone_index) ==
    LET all_words == KeptWords(ocr_result, conf_threshold)
        sorted_lines == SortLines(GroupWords(all_words, <<>>))
        lines == [k \in DOMAIN sorted_lines |-> SortWords(sorted_lines[k])]
    IN  IF all_words = <<>>
        THEN [start_index |-> index, end_index |-> index, zone_index |-> zone_index,
              lines |-> <<>>,
              confidence |-> IF ocr_result = <<>> THEN 100 ELSE 0,
              text |-> <<>>]
        ELSE [start_index |-> index, end_index |-> index, zone_index |-> zone_index,
              lines |-> lines,
              confidence |-> SumOfConfidences(Flatten(lines)) \div Len(Flatten(lines)),
              text |-> JoinTexts([k \in DOMAIN lines |->
                                    JoinTexts([j \in DOMAIN lines[k] |-> lines[k][j].text],
                                              <<SP>>)],
                                 <<NL>>)]

---------------------------------------------------------------------------
(* video.py: Video.run_ocr *)

\* ocr_start as run_ocr computes it
OcrStart ==
    IF video.is_vfr
    THEN IF run_args.time_start # <<>>
         THEN get_frame_index_from_ms(video.frame_timestamps,
                get_ms_from_time_str(run_args.time_start) + video.start_time_offset_ms)
         ELSE 0
    ELSE IF run_args.time_start # <<>>
         THEN get_frame_index(run_args.time_start, video.fps)
         ELSE 0

\* ocr_end as run_ocr computes it
OcrEnd ==
    IF video.is_vfr
    THEN IF run_args.time_end # <<>>
         THEN get_frame_index_from_ms(video.frame_timestamps,
                get_ms_from_time_str(run_args.time_end) + video.start_time_offset_ms)
         ELSE video.num_frames
    ELSE IF run_args.time_end # <<>>
         THEN get_frame_index(run_args.time_end, video.fps)
         ELSE video.num_frames

\* the crop zone makes the validation loop raise
ZoneRaises(zone) == zone.y >= video.height \/ zone.x >= video.width

\* position of the first crop zone that raises, Len + 1 if none does
FirstRaising(crop_zones) ==
    IF \E k \in DOMAIN crop_zones : ZoneRaises(crop_zones[k])
    THEN CHOOSE k \in DOMAIN crop_zones :
            /\ ZoneRaises(crop_zones[k])
            /\ \A j \in 1..(k - 1) : ~ZoneRaises(crop_zones[j])
    ELSE Len(crop_zones) + 1

\* run_ocr up to the end of the zone validation: the resets, the time range
\* and its check, the validated zones
RunBegin ==
    /\ pc = "run_ocr"
    /\ pred_frames_zone1' = <<>>
    /\ pred_frames_zone2' = <<>>
    /\ ocr_start' = OcrStart
    /\ ocr_end' = OcrEnd
    /\ IF OcrEnd < OcrStart
       THEN /\ validated_zones' = <<>>
            /\ pc' = "raised"
       ELSE LET bad == FirstRaising(run_args.crop_zones)
            IN  /\ validated_zones' =
                      [k \in 1..(bad - 1) |-> ValidatedZone(run_args.crop_zones[k])]
                /\ pc' = IF bad <= Len(run_args.crop_zones) THEN "raised" ELSE "mkdtemp"
    /\ UNCHANGED <<video, args, pred_subs, zone_call, pred_todo, subs, filtered_subs,
                   cleaned_subs, subs_zone1, subs_zone2, all_subs, merged_subs>>
    /\ UNCHANGED <<run_args, os_env, temp_dir, decoded, loop_i, prev_samples,
                   frame_paths, ocr_outputs, exit_code, frame_predictions_by_zone>>
    /\ UNCHANGED srt_lines
    /\ UNCHANGED pipeVars
    /\ UNCHANGED <<ctorVars, sweepVars>>
    /\ UNCHANGED inputVars
    /\ UNCHANGED guiVars

\* a scratch directory videocr_temp_<pid>_<suffix>
ScratchDir(pid, suffix) == [pid |-> pid, suffix |-> suffix]

\* the leftovers the startup sweep keeps: this process's own and those whose
\* process is running
AfterReclaim(dirs) ==
    {d \in dirs : d.pid = os_env.pid \/ d.pid \in os_env.live_pids}

\* the sweep of leftover scratch directories, then tempfile.mkdtemp
MakeTempDir ==
    /\ pc = "mkdtemp"
    /\ LET kept   == AfterReclaim(os_env.base_temp)
           suffix == CHOOSE n \in 0..Cardinality(kept) :
                        /\ ScratchDir(os_env.pid, n) \notin kept
                        /\ \A j \in 0..(n - 1) : ScratchDir(os_env.pid, j) \in kept
       IN  /\ temp_dir' = {ScratchDir(os_env.pid, suffix)}
           /\ os_env' = [os_env EXCEPT
                            !.base_temp = kept \cup {ScratchDir(os_env.pid, suffix)}]
    /\ pc' = "open"
    /\ UNCHANGED mergeVars
    /\ UNCHANGED <<run_args, ocr_start, ocr_end, decoded, loop_i, prev_samples,
                   frame_paths, ocr_outputs, exit_code, frame_predictions_by_zone>>
    /\ UNCHANGED pipeVars
    /\ UNCHANGED <<ctorVars, sweepVars>>
    /\ UNCHANGED inputVars
    /\ UNCHANGED guiVars

\* utils.is_process_running: what it can return for `pid`.  On Windows the
\* tasklist call may time out or fail, which the except clause turns into
\* False; elsewhere the answer is whether /proc/<pid> exists.
is_process_running(pid) ==
    IF platform_system = "Windows"
    THEN {pid \in os_env.live_pids, FALSE}
    ELSE {pid \in os_env.live_pids}

\* os.listdir(base_temp), filtered by the prefix videocr_temp_
SweepList ==
    /\ pc = "mkdtemp"
    /\ sweep_pc = "idle"
    /\ sweep_todo' = os_env.base_temp
    /\ sweep_pc' = "loop"
    /\ UNCHANGED <<pc, mergeVars, runVars, pipeVars, ctorVars>>
    /\ UNCHANGED <<platform_system, deleted_live>>
    /\ UNCHANGED inputVars
    /\ UNCHANGED guiVars

\* one iteration of the sweep, the names being visited in any order: the
\* run's own pid is skipped, a name that is no longer a directory is left,
\* the directory is removed if is_process_running answers False
SweepStep ==
    /\ sweep_pc = "loop"
    /\ \E d \in sweep_todo :
        /\ sweep_todo' = sweep_todo \ {d}
        /\ IF d.pid = os_env.pid \/ d \notin os_env.base_temp
           THEN UNCHANGED <<os_env, deleted_live>>
           ELSE \E running \in is_process_running(d.pid) :
                  IF running
                  THEN UNCHANGED <<os_env, deleted_live>>
                  ELSE /\ os_env' = [os_env EXCEPT !.base_temp = @ \ {d}]
                       /\ deleted_live' = IF d.pid \in os_env.live_pids
                                          THEN deleted_live \cup {d}
                                          ELSE deleted_live
    /\ UNCHANGED <<pc, mergeVars, pipeVars, ctorVars>>
    /\ UNCHANGED <<run_args, ocr_start, ocr_end, temp_dir, decoded, loop_i, prev_samples,
                   frame_paths, ocr_outputs, exit_code, frame_predictions_by_zone>>
    /\ UNCHANGED <<platform_system, sweep_pc>>
    /\ UNCHANGED inputVars
    /\ UNCHANGED guiVars

\* tempfile.mkdtemp(prefix=TEMP_PREFIX) after the sweep
SweepMkdtemp ==
    /\ sweep_pc = "loop"
    /\ sweep_todo = {}
    /\ LET suffix == CHOOSE n \in 0..Cardinality(os_env.base_temp) :
                        /\ ScratchDir(os_env.pid, n) \notin os_env.base_temp
                        /\ \A j \in 0..(n - 1) :
                                ScratchDir(os_env.pid, j) \in os_env.base_temp
       IN  /\ temp_dir' = {ScratchDir(os_env.pid, suffix)}
           /\ os_env' = [os_env EXCEPT !.base_temp = @ \cup {ScratchDir(os_env.pid, suffix)}]
    /\ pc' = "open"
    /\ sweep_pc' = "idle"
    /\ UNCHANGED <<mergeVars, pipeVars, ctorVars>>
    /\ UNCHANGED <<run_args, ocr_start, ocr_end, decoded, loop_i, prev_samples,
                   frame_paths, ocr_outputs, exit_code, frame_predictions_by_zone>>
    /\ UNCHANGED <<platform_system, sweep_todo, deleted_live>>
    /\ UNCHANGED inputVars
    /\ UNCHANGED guiVars

\* another process ends while this run sweeps: by a crash, which leaves its
\* scratch directories, or at the end of its run_ocr, which removed them
OtherProcessExits ==
    /\ pc = "mkdtemp"
    /\ \E p \in os_env.live_pids \ {os_env.pid} : \E crashed \in BOOLEAN :
          os_env' = [os_env EXCEPT
                        !.live_pids = @ \ {p},
                        !.base_temp = IF crashed THEN @ ELSE {d \in @ : d.pid # p}]
    /\ UNCHANGED <<pc, mergeVars, pipeVars, ctorVars, sweepVars>>
    /\ UNCHANGED <<run_args, ocr_start, ocr_end, temp_dir, decoded, loop_i, prev_samples,
                   frame_paths, ocr_outputs, exit_code, frame_predictions_by_zone>>
    /\ UNCHANGED inputVars
    /\ UNCHANGED guiVars

\* another running run reaches its own mkdtemp while this run sweeps
OtherRunMkdtemp ==
    /\ pc = "mkdtemp"
    /\ \E p \in os_env.live_pids \ {os_env.pid} :
          /\ \A d \in os_env.base_temp : d.pid # p
          /\ os_env' = [os_env EXCEPT !.base_temp = @ \cup {ScratchDir(p, 0)}]
    /\ UNCHANGED <<pc, mergeVars, pipeVars, ctorVars, sweepVars>>
    /\ UNCHANGED <<run_args, ocr_start, ocr_end, temp_dir, decoded, loop_i, prev_samples,
                   frame_paths, ocr_outputs, exit_code, frame_predictions_by_zone>>
    /\ UNCHANGED inputVars
    /\ UNCHANGED guiVars

\* with Capture(self.path) as v, the advance to ocr_start, the loop set-up
CaptureOpen ==
    /\ pc = "open"
    /\ IF ~video.can_open
       THEN /\ pc' = "raised"
            /\ UNCHANGED <<decoded, prev_samples, loop_i>>
       ELSE /\ decoded' = Min2(ocr_start, video.stream_frames)
            /\ prev_samples' = [z \in 1..Max2(1, Len(validated_zones)) |-> <<>>]
            /\ loop_i' = 0
            /\ pc' = "sample"
    /\ UNCHANGED mergeVars
    /\ UNCHANGED <<run_args, os_env, ocr_start, ocr_end, temp_dir, frame_paths,
                   ocr_outputs, exit_code, frame_predictions_by_zone>>
    /\ UNCHANGED pipeVars
    /\ UNCHANGED <<ctorVars, sweepVars>>
    /\ UNCHANGED inputVars
    /\ UNCHANGED guiVars

\* zone_idx of the images_to_process of a frame, in order
ZonesToProcess ==
    IF run_args.use_fullframe THEN <<0>>
    ELSE IF validated_zones # <<>>
         THEN [k \in 1..Len(validated_zones) |-> k - 1]
         ELSE <<0>>

SubtitlePositions == {"center", "left", "right", "any"}

\* `if ssim_threshold < 1:` after ssim_threshold / 100; thresholds and scores
\* are whole percents
DedupEnabled == run_args.ssim_threshold < 100

\* fast_ssim.ssim on two strips, in percent: 100 on equal strips, lower the
\* further the strips are apart
ssim(strip_a, strip_b) ==
    LET d == IF strip_a >= strip_b THEN strip_a - strip_b ELSE strip_b - strip_a
    IN  Max2(0, 100 - 5 * d * d)

\* the strip of zone_idx in the frame at a decoder position
Strip(position, zone_idx) == pixels[position + 1][zone_idx + 1]

\* the zones that have a previous sample to be compared with
ZonesWithPrevSample ==
    {z \in 0..(Len(prev_samples) - 1) : DedupEnabled /\ prev_samples[z + 1] # <<>>}

\* the possible sets of zones whose strip of the frame just read scores above
\* ssim_threshold against prev_samples
SimilarZoneSets ==
    IF pixels = <<>> THEN SUBSET ZonesWithPrevSample
    ELSE {{z \in ZonesWithPrevSample :
                ssim(Strip(prev_samples[z + 1][1], z), Strip(decoded, z))
                    > run_args.ssim_threshold}}

\* a loop that replaces the previous sample of a zone only by a kept frame
PrevSamplesOfKept(zones, similar) ==
    IF DedupEnabled
    THEN [k \in DOMAIN prev_samples |->
            IF (\E m \in DOMAIN zones : zones[m] = k - 1) /\ (k - 1) \notin similar
            THEN <<decoded>> ELSE prev_samples[k]]
    ELSE prev_samples

\* prev_samples after the zones of the frame just read went through the
\* comparison: `prev_samples[zone_idx] = sample` on both paths
PrevSamplesAfter(zones, similar) ==
    IF DedupEnabled
    THEN [k \in DOMAIN prev_samples |->
            IF \E m \in DOMAIN zones : zones[m] = k - 1
            THEN <<decoded>> ELSE prev_samples[k]]
    ELSE prev_samples

\* a grab that leaves the decoder where it is
AfterGrabWithoutDecoding(position) == position

\* Capture.grab: the decoder position after next(self.frame_iterator), which
\* is caught at the end of the stream
AfterGrab(position) == Min2(position + 1, video.stream_frames)

\* one iteration of the sampling loop.  `similar` is the set of zones whose
\* strip scores above ssim_threshold against prev_samples; a sample is named
\* by the decoder position of its frame.
SampleStep ==
    /\ pc = "sample"
    /\ loop_i < ocr_end - ocr_start
    /\ IF loop_i % (run_args.frames_to_skip + 1) # 0
       THEN /\ decoded' = AfterGrab(decoded)
            /\ loop_i' = loop_i + 1
            /\ UNCHANGED <<pc, prev_samples, frame_paths>>
       ELSE IF decoded >= video.stream_frames
       THEN /\ loop_i' = loop_i + 1
            /\ UNCHANGED <<pc, decoded, prev_samples, frame_paths>>
       ELSE IF DedupEnabled /\ run_args.subtitle_position \notin SubtitlePositions
       THEN /\ pc' = "raised"
            /\ decoded' = decoded + 1
            /\ UNCHANGED <<loop_i, prev_samples, frame_paths>>
       ELSE \E similar \in SimilarZoneSets :
              LET zones   == ZonesToProcess
                  Written(z) == z \notin similar
                  padding == Len(Digits(ocr_end - ocr_start))
                  kept    == SelectSeq(zones, Written)
              IN  /\ prev_samples' = PrevSamplesAfter(zones, similar)
                  /\ frame_paths' = frame_paths \o
                        [m \in DOMAIN kept |->
                            FrameFilename(loop_i + ocr_start, padding, kept[m])]
                  /\ decoded' = decoded + 1
                  /\ loop_i' = loop_i + 1
                  /\ UNCHANGED pc
    /\ UNCHANGED mergeVars
    /\ UNCHANGED <<run_args, os_env, ocr_start, ocr_end, temp_dir, ocr_outputs,
                   exit_code, frame_predictions_by_zone>>
    /\ UNCHANGED pipeVars
    /\ UNCHANGED <<ctorVars, sweepVars>>
    /\ UNCHANGED inputVars
    /\ UNCHANGED guiVars

\* the end of the sampling loop, the engine's command line, the isfile test
\* and Popen
StartEngine ==
    /\ pc = "sample"
    /\ loop_i = ocr_end - ocr_start
    /\ pc' = IF video.paddleocr_is_file THEN "engine" ELSE "raised"
    /\ UNCHANGED mergeVars
    /\ UNCHANGED runVars
    /\ UNCHANGED pipeVars
    /\ UNCHANGED <<ctorVars, sweepVars>>
    /\ UNCHANGED inputVars
    /\ UNCHANGED guiVars

\* what the engine may print for one image
EngineResults == {<<>>, <<[bounding_box |-> Box(10, 10, 30, 20), text |-> T_AB, score |-> 90]>>}

\* an engine step that goes on to the mapping whatever the exit code is
EngineRunIgnoringExitCode ==
    /\ pc = "engine"
    /\ \E outs \in [{frame_paths[k] : k \in DOMAIN frame_paths} -> EngineResults] :
            ocr_outputs' = outs
    /\ \E code \in {0, 1} : exit_code' = code
    /\ pc' = "map"
    /\ UNCHANGED mergeVars
    /\ UNCHANGED <<run_args, os_env, ocr_start, ocr_end, temp_dir, decoded, loop_i,
                   prev_samples, frame_paths, frame_predictions_by_zone>>
    /\ UNCHANGED pipeVars
    /\ UNCHANGED <<ctorVars, sweepVars>>
    /\ UNCHANGED inputVars
    /\ UNCHANGED guiVars

\* the engine's run over the images of temp_dir, the parse of its output and
\* the wait for its exit code; an image the engine says nothing about reads
\* as [] through ocr_outputs.get
EngineRun ==
    /\ pc = "engine"
    /\ \E outs \in [{frame_paths[k] : k \in DOMAIN frame_paths} -> EngineResults] :
            ocr_outputs' = outs
    /\ \E code \in {0, 1} :
            /\ exit_code' = code
            /\ pc' = IF code # 0 THEN "exited" ELSE "map"
    /\ UNCHANGED mergeVars
    /\ UNCHANGED <<run_args, os_env, ocr_start, ocr_end, temp_dir, decoded, loop_i,
                   prev_samples, frame_paths, frame_predictions_by_zone>>
    /\ UNCHANGED pipeVars
    /\ UNCHANGED <<ctorVars, sweepVars>>
    /\ UNCHANGED inputVars
    /\ UNCHANGED guiVars

\* the PredictedFrames of one zone, in the order of frame_paths
MappedFrames(zone_index) ==
    LET OfZone(path) == path.zone = zone_index
        paths == SelectSeq(frame_paths, OfZone)
    IN  [k \in DOMAIN paths |->
            PredictedFrames(ParseInt(paths[k].digits),
                            IF paths[k] \in DOMAIN ocr_outputs
                            THEN ocr_outputs[paths[k]] ELSE <<>>,
                            run_args.conf_threshold, paths[k].zone)]

\* the mapping loop over frame_paths
MapFrames ==
    /\ pc = "map"
    /\ frame_predictions_by_zone' = <<MappedFrames(0), MappedFrames(1)>>
    /\ pc' = "stitch"
    /\ UNCHANGED mergeVars
    /\ UNCHANGED <<run_args, os_env, ocr_start, ocr_end, temp_dir, decoded, loop_i,
                   prev_samples, frame_paths, ocr_outputs, exit_code>>
    /\ UNCHANGED pipeVars
    /\ UNCHANGED <<ctorVars, sweepVars>>
    /\ UNCHANGED inputVars
    /\ UNCHANGED guiVars

\* a stitching pass that leaves every end_index where the mapping set it
StitchZoneWithoutExtension(zone_frames) == SortFramesByStart(zone_frames)

\* the stitching pass over the frames of one zone
StitchZone(zone_frames) ==
    LET frames == SortFramesByStart(zone_frames)
    IN  [k \in DOMAIN frames |->
            [frames[k] EXCEPT !.end_index =
                IF k < Len(frames) THEN frames[k + 1].start_index - 1
                ELSE ocr_end - 1]]

\* the stitching loop, the assignment of pred_frames_zone1/2 and the removal
\* of temp_dir
Stitch ==
    /\ pc = "stitch"
    /\ pred_frames_zone1' = StitchZone(frame_predictions_by_zone[1])
    /\ pred_frames_zone2' = StitchZone(frame_predictions_by_zone[2])
    /\ frame_predictions_by_zone' =
            <<StitchZone(frame_predictions_by_zone[1]),
              StitchZone(frame_predictions_by_zone[2])>>
    /\ os_env' = [os_env EXCEPT !.base_temp = @ \ temp_dir]
    /\ pc' = "ocr_done"
    /\ UNCHANGED <<video, args, validated_zones, pred_subs, zone_call, pred_todo, subs,
                   filtered_subs, cleaned_subs, subs_zone1, subs_zone2, all_subs,
                   merged_subs>>
    /\ UNCHANGED <<run_args, ocr_start, ocr_end, temp_dir, decoded, loop_i,
                   prev_samples, frame_paths, ocr_outputs, exit_code>>
    /\ UNCHANGED srt_lines
    /\ UNCHANGED pipeVars
    /\ UNCHANGED <<ctorVars, sweepVars>>
    /\ UNCHANGED inputVars
    /\ UNCHANGED guiVars

\* the caller goes on from run_ocr to get_subtitles
GetSubtitles ==
    /\ pc = "ocr_done"
    /\ pc' = "zone_begin"
    /\ UNCHANGED mergeVars
    /\ UNCHANGED runVars
    /\ UNCHANGED pipeVars
    /\ UNCHANGED <<ctorVars, sweepVars>>
    /\ UNCHANGED inputVars
    /\ UNCHANGED guiVars

---------------------------------------------------------------------------
(* video.py: Video.run_ocr between Popen and the exit-code test, line by   *)
(* line.  A line of the engine's stdout is known by what the parse loop    *)
(* finds in it:                                                             *)
(*   "delimiter"  the marker "ppocr INFO: **********" and a name the regex *)
(*                extracts;                                                 *)
(*   "result"     '[[' and a literal that ast.literal_eval reads as one    *)
(*                detection;                                                *)
(*   "malformed"  '[[' but no literal the regex and ast.literal_eval can   *)
(*                read (the exception is caught and reported);              *)
(*   "other"      neither marker.                                           *)

DelimiterLine(image) == [kind |-> "delimiter", image |-> image, data |-> <<>>]

ResultLine(word_pred) == [kind |-> "result", image |-> <<>>, data |-> <<word_pred>>]

MalformedLine == [kind |-> "malformed", image |-> <<>>, data |-> <<>>]

OtherLine == [kind |-> "other", image |-> <<>>, data |-> <<>>]

ARABIC_LANGS == {"ar", "fa", "ug", "ur"}

\* a character the pattern ARABIC_CHARS matches
IsArabicChar(c) ==
    \/ c \in 1536..1791
    \/ c \in 1872..1919
    \/ c \in 2208..2303
    \/ c \in 64336..65023
    \/ c \in 65136..65279

\* a character of the class in ARABIC_TRAILING_PUNCT: the Arabic comma,
\* question mark and semicolon, and ! , . : ? ( ) ' "
IsTrailingPunct(c) == c \in {1548, 1567, 1563, 33, 44, 46, 58, 63, 40, 41, 39, 34}

\* whitespace as str.split() sees it: space, tab, newline, carriage return
IsSpace(c) == c \in {SP, NL, 9, 13}

Reverse(seq) == [i \in 1..Len(seq) |-> seq[Len(seq) + 1 - i]]

\* text.split(): the maximal stretches without whitespace
RECURSIVE SplitWords(_, _, _)
SplitWords(text, word, words) ==
    IF text = <<>>
    THEN IF word = <<>> THEN words ELSE Append(words, word)
    ELSE IF IsSpace(Head(text))
    THEN SplitWords(Tail(text), <<>>, IF word = <<>> THEN words ELSE Append(words, word))
    ELSE SplitWords(Tail(text), Append(word, Head(text)), words)

\* ' '.join(words)
RECURSIVE JoinWords(_)
JoinWords(words) ==
    IF words = <<>> THEN <<>>
    ELSE IF Len(words) = 1 THEN words[1]
    ELSE words[1] \o <<SP>> \o JoinWords(Tail(words))

\* ARABIC_CHARS.search(w)
HasArabicChar(w) == \E i \in DOMAIN w : IsArabicChar(w[i])

\* len(m.group(1)) for ARABIC_TRAILING_PUNCT.search(w), 0 without a match:
\* the longest suffix of w made of punctuation
RECURSIVE TrailingPunctLen(_)
TrailingPunctLen(w) ==
    IF w = <<>> \/ ~IsTrailingPunct(w[Len(w)]) THEN 0
    ELSE 1 + TrailingPunctLen(SubSeq(w, 1, Len(w) - 1))

\* reversed_core + punct
FixArabicWord(w) ==
    LET n == TrailingPunctLen(w)
    IN  Reverse(SubSeq(w, 1, Len(w) - n)) \o SubSeq(w, Len(w) - n + 1, Len(w))

\* a loop over the words that flushes the pending Arabic words in the order
\* they came
RECURSIVE FixWordsKeepingRunOrder(_, _, _)
FixWordsKeepingRunOrder(words, fixed_words, arabic_words) ==
    IF words = <<>>
    THEN fixed_words \o arabic_words
    ELSE IF HasArabicChar(Head(words))
    THEN FixWordsKeepingRunOrder(Tail(words), fixed_words,
                                 Append(arabic_words, FixArabicWord(Head(words))))
    ELSE FixWordsKeepingRunOrder(Tail(words),
                                 Append(fixed_words \o arabic_words, Head(words)), <<>>)

\* the loop of convert_visual_to_logical over the words, and the flush
\* after it
RECURSIVE FixWords(_, _, _)
FixWords(words, fixed_words, arabic_words) ==
    IF words = <<>>
    THEN fixed_words \o Reverse(arabic_words)
    ELSE IF HasArabicChar(Head(words))
    THEN FixWords(Tail(words), fixed_words,
                  Append(arabic_words, FixArabicWord(Head(words))))
    ELSE FixWords(Tail(words),
                  Append(fixed_words \o Reverse(arabic_words), Head(words)), <<>>)

\* utils.convert_visual_to_logical
convert_visual_to_logical(text) ==
    JoinWords(FixWords(SplitWords(text, <<>>, <<>>), <<>>, <<>>))

\* what the parse loop appends for the detections of a line: for the
\* languages in ARABIC_LANGS the text is put through
\* convert_visual_to_logical
CorrectedData(data) ==
    IF run_args.lang \in ARABIC_LANGS
    THEN [k \in DOMAIN data |->
            [data[k] EXCEPT !.text = convert_visual_to_logical(@)]]
    ELSE data

\* outputs[key] = value on a dict
Put(outputs, key, value) ==
    [k \in (DOMAIN outputs) \cup {key} |-> IF k = key THEN value ELSE outputs[k]]

\* a parse step on which a malformed line ends the attribution to the
\* current image
ParseLineDroppingImage(line, image, outputs) ==
    IF line.kind = "delimiter"
    THEN [current_image |-> <<line.image>>,
          ocr_outputs   |-> Put(outputs, line.image, <<>>)]
    ELSE IF image # <<>> /\ line.kind = "result"
    THEN [current_image |-> image,
          ocr_outputs   |-> Put(outputs, image[1], outputs[image[1]] \o CorrectedData(line.data))]
    ELSE IF line.kind = "malformed"
    THEN [current_image |-> <<>>, ocr_outputs |-> outputs]
    ELSE [current_image |-> image, ocr_outputs |-> outputs]

\* a parse step that keeps attributing to the image of the first delimiter
ParseLineKeepingFirstImage(line, image, outputs) ==
    IF line.kind = "delimiter"
    THEN [current_image |-> IF image = <<>> THEN <<line.image>> ELSE image,
          ocr_outputs   |-> Put(outputs, line.image, <<>>)]
    ELSE IF image # <<>> /\ line.kind = "result"
    THEN [current_image |-> image,
          ocr_outputs   |-> Put(outputs, image[1], outputs[image[1]] \o CorrectedData(line.data))]
    ELSE [current_image |-> image, ocr_outputs |-> outputs]

\* the body of the parse loop on one line: the new current_image and
\* ocr_outputs
ParseLine(line, image, outputs) ==
    IF line.kind = "delimiter"
    THEN [current_image |-> <<line.image>>,
          ocr_outputs   |-> Put(outputs, line.image, <<>>)]
    ELSE IF image # <<>> /\ line.kind = "result"
    THEN [current_image |-> image,
          ocr_outputs   |-> Put(outputs, image[1], outputs[image[1]] \o CorrectedData(line.data))]
    ELSE [current_image |-> image, ocr_outputs |-> outputs]

PipeCapacity == 1

\* the engine writes its next stdout line; it blocks while the pipe is full
EngineWriteStdout ==
    /\ engine_state = "running"
    /\ engine_out # <<>>
    /\ Len(stdout_pipe) < PipeCapacity
    /\ stdout_pipe' = Append(stdout_pipe, Head(engine_out))
    /\ engine_out' = Tail(engine_out)
    /\ UNCHANGED <<pc, mergeVars, runVars>>
    /\ UNCHANGED <<engine_state, engine_code, engine_err, stderr_pipe, reader_pc,
                   stderr_thread, stdout_lines, stderr_lines, current_image>>
    /\ UNCHANGED <<ctorVars, sweepVars>>
    /\ UNCHANGED inputVars
    /\ UNCHANGED guiVars

\* the engine writes its next stderr line; it blocks while the pipe is full
EngineWriteStderr ==
    /\ engine_state = "running"
    /\ engine_err # <<>>
    /\ Len(stderr_pipe) < PipeCapacity
    /\ stderr_pipe' = Append(stderr_pipe, Head(engine_err))
    /\ engine_err' = Tail(engine_err)
    /\ UNCHANGED <<pc, mergeVars, runVars>>
    /\ UNCHANGED <<engine_state, engine_code, engine_out, stdout_pipe, reader_pc,
                   stderr_thread, stdout_lines, stderr_lines, current_image>>
    /\ UNCHANGED <<ctorVars, sweepVars>>
    /\ UNCHANGED inputVars
    /\ UNCHANGED guiVars

\* the engine process ends, with all its output written or before that;
\* its ends of both pipes close
EngineExit ==
    /\ engine_state = "running"
    /\ engine_state' = "exited"
    /\ \E code \in {0, 1} : engine_code' = code
    /\ engine_out' = <<>>
    /\ engine_err' = <<>>
    /\ UNCHANGED <<pc, mergeVars, runVars>>
    /\ UNCHANGED <<stdout_pipe, stderr_pipe, reader_pc, stderr_thread, stdout_lines,
                   stderr_lines, current_image>>
    /\ UNCHANGED <<ctorVars, sweepVars>>
    /\ UNCHANGED inputVars
    /\ UNCHANGED guiVars

\* one iteration of the loop over process.stdout.readline
ReadStdoutLine ==
    /\ reader_pc = "read_stdout"
    /\ stdout_pipe # <<>>
    /\ stdout_lines' = Append(stdout_lines, Head(stdout_pipe))
    /\ stdout_pipe' = Tail(stdout_pipe)
    /\ current_image' = ParseLine(Head(stdout_pipe), current_image, ocr_outputs).current_image
    /\ ocr_outputs' = ParseLine(Head(stdout_pipe), current_image, ocr_outputs).ocr_outputs
    /\ UNCHANGED <<pc, mergeVars>>
    /\ UNCHANGED <<run_args, os_env, ocr_start, ocr_end, temp_dir, decoded, loop_i,
                   prev_samples, frame_paths, exit_code, frame_predictions_by_zone>>
    /\ UNCHANGED <<engine_state, engine_code, engine_out, engine_err, stderr_pipe,
                   reader_pc, stderr_thread, stderr_lines>>
    /\ UNCHANGED <<ctorVars, sweepVars>>
    /\ UNCHANGED inputVars
    /\ UNCHANGED guiVars

\* readline returns '': the loop ends and process.stdout is closed
ReadStdoutEof ==
    /\ reader_pc = "read_stdout"
    /\ stdout_pipe = <<>>
    /\ engine_state = "exited"
    /\ reader_pc' = "wait"
    /\ UNCHANGED <<pc, mergeVars, runVars>>
    /\ UNCHANGED <<engine_state, engine_code, engine_out, engine_err, stdout_pipe,
                   stderr_pipe, stderr_thread, stdout_lines, stderr_lines, current_image>>
    /\ UNCHANGED <<ctorVars, sweepVars>>
    /\ UNCHANGED inputVars
    /\ UNCHANGED guiVars

\* a reader that returns from the join while the drain thread still reads
JoinStderrWithoutWaiting ==
    /\ reader_pc = "join"
    /\ reader_pc' = "check"
    /\ UNCHANGED <<pc, mergeVars, runVars>>
    /\ UNCHANGED <<engine_state, engine_code, engine_out, engine_err, stdout_pipe,
                   stderr_pipe, stderr_thread, stdout_lines, stderr_lines, current_image>>
    /\ UNCHANGED <<ctorVars, sweepVars>>
    /\ UNCHANGED inputVars
    /\ UNCHANGED guiVars

\* exit_code = process.wait()
WaitForExit ==
    /\ reader_pc = "wait"
    /\ engine_state = "exited"
    /\ exit_code' = engine_code
    /\ reader_pc' = "join"
    /\ UNCHANGED <<pc, mergeVars>>
    /\ UNCHANGED <<run_args, os_env, ocr_start, ocr_end, temp_dir, decoded, loop_i,
                   prev_samples, frame_paths, ocr_outputs, frame_predictions_by_zone>>
    /\ UNCHANGED <<engine_state, engine_code, engine_out, engine_err, stdout_pipe,
                   stderr_pipe, stderr_thread, stdout_lines, stderr_lines, current_image>>
    /\ UNCHANGED <<ctorVars, sweepVars>>
    /\ UNCHANGED inputVars
    /\ UNCHANGED guiVars

\* a run_ocr that reads stderr only after the loop over stdout has ended
StderrReadAfterStdout ==
    /\ reader_pc # "read_stdout"
    /\ stderr_thread = "reading"
    /\ stderr_pipe # <<>>
    /\ stderr_lines' = Append(stderr_lines, Head(stderr_pipe))
    /\ stderr_pipe' = Tail(stderr_pipe)
    /\ UNCHANGED <<pc, mergeVars, runVars>>
    /\ UNCHANGED <<engine_state, engine_code, engine_out, engine_err, stdout_pipe,
                   reader_pc, stderr_thread, stdout_lines, current_image>>
    /\ UNCHANGED <<ctorVars, sweepVars>>
    /\ UNCHANGED inputVars
    /\ UNCHANGED guiVars

\* utils.read_pipe in stderr_thread: one line read
StderrRead ==
    /\ stderr_thread = "reading"
    /\ stderr_pipe # <<>>
    /\ stderr_lines' = Append(stderr_lines, Head(stderr_pipe))
    /\ stderr_pipe' = Tail(stderr_pipe)
    /\ UNCHANGED <<pc, mergeVars, runVars>>
    /\ UNCHANGED <<engine_state, engine_code, engine_out, engine_err, stdout_pipe,
                   reader_pc, stderr_thread, stdout_lines, current_image>>
    /\ UNCHANGED <<ctorVars, sweepVars>>
    /\ UNCHANGED inputVars
    /\ UNCHANGED guiVars

\* utils.read_pipe in stderr_thread: readline returns '', the pipe is closed
\* and the thread ends
StderrEof ==
    /\ stderr_thread = "reading"
    /\ stderr_pipe = <<>>
    /\ engine_state = "exited"
    /\ stderr_thread' = "finished"
    /\ UNCHANGED <<pc, mergeVars, runVars>>
    /\ UNCHANGED <<engine_state, engine_code, engine_out, engine_err, stdout_pipe,
                   stderr_pipe, reader_pc, stdout_lines, stderr_lines, current_image>>
    /\ UNCHANGED <<ctorVars, sweepVars>>
    /\ UNCHANGED inputVars
    /\ UNCHANGED guiVars

\* stderr_thread.join()
JoinStderr ==
    /\ reader_pc = "join"
    /\ stderr_thread = "finished"
    /\ reader_pc' = "check"
    /\ UNCHANGED <<pc, mergeVars, runVars>>
    /\ UNCHANGED <<engine_state, engine_code, engine_out, engine_err, stdout_pipe,
                   stderr_pipe, stderr_thread, stdout_lines, stderr_lines, current_image>>
    /\ UNCHANGED <<ctorVars, sweepVars>>
    /\ UNCHANGED inputVars
    /\ UNCHANGED guiVars

\* the test of exit_code: log and sys.exit(1), or on to the mapping
CheckExitCode ==
    /\ reader_pc = "check"
    /\ reader_pc' = "none"
    /\ pc' = IF exit_code # 0 THEN "exited" ELSE "map"
    /\ UNCHANGED <<mergeVars, runVars>>
    /\ UNCHANGED <<engine_state, engine_code, engine_out, engine_err, stdout_pipe,
                   stderr_pipe, stderr_thread, stdout_lines, stderr_lines, current_image>>
    /\ UNCHANGED <<ctorVars, sweepVars>>
    /\ UNCHANGED inputVars
    /\ UNCHANGED guiVars

---------------------------------------------------------------------------
(* Runs of run_ocr on a constant-frame-rate video *)

MaxOcrFrames == 3

MaxSkip == 1

\* crop zone lists: none, one zone, two zones, one zone outside the frame
CropZoneLists ==
    {<<>>,
     <<CropZone(0, 80, 100, 40)>>,
     <<CropZone(0, 0, 100, 40), CropZone(0, 80, 100, 40)>>,
     <<CropZone(0, 80, 100, 40), CropZone(0, 120, 100, 40)>>}

RunVideos ==
    [is_vfr : {FALSE}, fps : {10}, frame_timestamps : {<<>>},
     start_time_offset_ms : {0}, height : {120}, width : {100},
     num_frames : {MaxOcrFrames},
     stream_frames : {MaxOcrFrames - 1, MaxOcrFrames},
     can_open : BOOLEAN, paddleocr_is_file : BOOLEAN]

RunArgs ==
    {a \in [time_start : {<<>>, <<0, 100>>},
            time_end : {<<>>} \cup {<<0, 100 * k>> : k \in 0..(MaxOcrFrames + 1)},
            frames_to_skip : 0..MaxSkip,
            ssim_threshold : {92, 100},
            subtitle_position : {"center", "bottom"},
            use_fullframe : {FALSE},
            crop_zones : CropZoneLists,
            conf_threshold : {75}, lang : {"en"}] :
        a.subtitle_position = "bottom" => a.ssim_threshold < 100}

InitRun ==
    /\ pc = "run_ocr"
    /\ video \in RunVideos
    /\ run_args \in RunArgs
    /\ args = [sim_threshold |-> 80, max_merge_gap_ms |-> 0,
               min_subtitle_duration_ms |-> 100]
    /\ os_env \in [pid : {1}, live_pids : {{1, 2}},
                   base_temp : {{}, {ScratchDir(1, 0), ScratchDir(2, 0), ScratchDir(3, 0)}}]
    /\ validated_zones = <<>>
    /\ pred_frames_zone1 = <<>>
    /\ pred_frames_zone2 = <<>>
    /\ MergeLocalsEmpty
    /\ ocr_start = 0
    /\ ocr_end = 0
    /\ temp_dir = {}
    /\ decoded = 0
    /\ loop_i = 0
    /\ prev_samples = <<>>
    /\ frame_paths = <<>>
    /\ ocr_outputs = <<>>
    /\ exit_code = 0
    /\ frame_predictions_by_zone = <<>>
    /\ NoEngine
    /\ AlreadyConstructed
    /\ NoSweep
    /\ NoCommandLine
    /\ ContentOpen
    /\ NoWindow

NextRun ==
    \/ RunBegin
    \/ MakeTempDir
    \/ CaptureOpen
    \/ SampleStep
    \/ StartEngine
    \/ EngineRun
    \/ MapFrames
    \/ Stitch

SpecRun == InitRun /\ [][NextRun]_vars

\* the frame indices one PredictedFrames stands for
IndexRange(frame) == frame.start_index..frame.end_index

\* the ranges of a zone's frames are pairwise disjoint and their union is
\* the OCR range
CoversOcrRange(zone_frames) ==
    /\ \A a, b \in DOMAIN zone_frames :
            a # b => IndexRange(zone_frames[a]) \cap IndexRange(zone_frames[b]) = {}
    /\ UNION {IndexRange(zone_frames[a]) : a \in DOMAIN zone_frames}
            = ocr_start..(ocr_end - 1)

\* C1: after the stitching pass, for every zone with at least one kept frame,
\* the index ranges of the zone's PredictedFrames are pairwise disjoint and
\* their union is exactly ocr_start .. ocr_end - 1.
C1_StitchingCompleteness ==
    pc = "ocr_done" =>
        /\ pred_frames_zone1 # <<>> => CoversOcrRange(pred_frames_zone1)
        /\ pred_frames_zone2 # <<>> => CoversOcrRange(pred_frames_zone2)

\* a stitched run with a skip stride, two zones, a deduplicated frame in
\* zone 1 only, and an OCR range that ends beyond the last decodable frame
C1_Witness ==
    /\ pc = "ocr_done"
    /\ run_args.frames_to_skip > 0
    /\ ocr_end > video.stream_frames
    /\ Len(pred_frames_zone1) >= 2
    /\ Len(pred_frames_zone2) >= 1
    /\ Len(pred_frames_zone2) < Len(pred_frames_zone1)
    /\ CoversOcrRange(pred_frames_zone1)
    /\ CoversOcrRange(pred_frames_zone2)

\* C7: on every exit path of run_ocr (return, raised exception, sys.exit)
\* the scratch directory of the run no longer exists.
C7_ScratchDirDeleted ==
    pc \in {"ocr_done", "raised", "exited"} => temp_dir \cap os_env.base_temp = {}

---------------------------------------------------------------------------
(* utils.py, video.py: SRT timestamps and the emission of the SRT blocks.  *)
(* A timestamp hh:mm:ss,mmm is kept as its four digit strings.              *)

\* the fields of a timedelta of `ms` milliseconds, formatted 02d:02d:02d,03d
FormatTimedelta(ms) ==
    LET td_seconds == (ms \div 1000) % 86400
        milliseconds == ms % 1000
        minutes == td_seconds \div 60
    IN  [hours        |-> ZeroPad(Digits(minutes \div 60), 2),
         minutes      |-> ZeroPad(Digits(minutes % 60), 2),
         seconds      |-> ZeroPad(Digits(td_seconds % 60), 2),
         milliseconds |-> ZeroPad(Digits(milliseconds), 3)]

\* utils.get_srt_timestamp
get_srt_timestamp(frame_index, fps, offset_ms) ==
    FormatTimedelta((frame_index * 1000) \div fps + offset_ms)

\* utils.get_srt_timestamp_from_ms
get_srt_timestamp_from_ms(ms) == FormatTimedelta(ms)

\* SRT timestamps that always divide the frame index by fps
get_srt_timestamps_by_index(sub) ==
    <<get_srt_timestamp(index_start(sub), video.fps, video.start_time_offset_ms),
      get_srt_timestamp(index_end(sub) + 1, video.fps, video.start_time_offset_ms)>>

\* Video._get_srt_timestamps
get_srt_timestamps(sub) ==
    IF video.is_vfr
    THEN LET t == get_subtitle_ms_times(sub)
         IN  <<get_srt_timestamp_from_ms(t[1]), get_srt_timestamp_from_ms(t[2])>>
    ELSE <<get_srt_timestamp(index_start(sub), video.fps, video.start_time_offset_ms),
           get_srt_timestamp(index_end(sub) + 1, video.fps, video.start_time_offset_ms)>>

\* get_subtitles after _generate_subtitles: one numbered block per Subtitle
EmitSrt ==
    /\ pc = "done"
    /\ srt_lines' = [i \in DOMAIN pred_subs |->
                        [number     |-> i,
                         start_time |-> get_srt_timestamps(pred_subs[i])[1],
                         end_time   |-> get_srt_timestamps(pred_subs[i])[2],
                         text       |-> pred_subs[i].text]]
    /\ pc' = "emitted"
    /\ UNCHANGED <<video, args, validated_zones, pred_frames_zone1, pred_frames_zone2,
                   pred_subs, zone_call, pred_todo, subs, filtered_subs, cleaned_subs,
                   subs_zone1, subs_zone2, all_subs, merged_subs>>
    /\ UNCHANGED runVars
    /\ UNCHANGED pipeVars
    /\ UNCHANGED <<ctorVars, sweepVars>>
    /\ UNCHANGED inputVars
    /\ UNCHANGED guiVars

---------------------------------------------------------------------------
(* Single-zone runs of get_subtitles on a constant-frame-rate video *)

MaxFrames == 3

ZoneKinds == Kinds({T_AB, T_ABC, T_C}, {50, 90}, {1, 2})

InitZone ==
    /\ video = CfrVideo(10)
    /\ args \in [sim_threshold : {80}, max_merge_gap_ms : {0, 100},
                 min_subtitle_duration_ms : {100, 200}]
    /\ validated_zones = OneZone
    /\ \E ks \in KindSeqs(ZoneKinds, 1, MaxFrames) :
            pred_frames_zone1 = StitchedFrames(ks, 0, 0)
    /\ pred_frames_zone2 = <<>>
    /\ MergeStart

NextZone ==
    \/ ProcessZoneBegin
    \/ Pass1Step
    \/ FinalizeSubs
    \/ FilterSubs
    \/ Pass3Step
    \/ ZoneReturn
    \/ Combine

SpecZone == InitZone /\ [][NextZone]_vars

---------------------------------------------------------------------------
(* Claims about text finalization *)

\* the Subtitles whose text is a finalized text in the current state
FinalizedSubs ==
    IF pc = "filter" THEN subs
    ELSE IF pc = "pass3" THEN cleaned_subs \o filtered_subs
    ELSE IF pc \in {"combine", "done"} THEN subs_zone1
    ELSE <<>>

FramesWithText(sub, t) == {i \in DOMAIN sub.frames : sub.frames[i].text = t}

RECURSIVE ConfTotal(_, _)
ConfTotal(sub, I) ==
    IF I = {} THEN 0
    ELSE LET i == CHOOSE x \in I : TRUE
         IN  sub.frames[i].confidence + ConfTotal(sub, I \ {i})

\* C9: a finalized Subtitle's text is a text of its frames with the highest
\* occurrence count, and among the texts sharing that count none has a
\* higher mean confidence; so more frames always beat fewer frames.
C9_FrequencyFirst ==
    \A k \in DOMAIN FinalizedSubs :
        LET sub  == FinalizedSubs[k]
            mine == FramesWithText(sub, sub.text)
        IN  /\ mine # {}
            /\ \A i \in DOMAIN sub.frames :
                LET other == FramesWithText(sub, sub.frames[i].text)
                IN  /\ Cardinality(other) <= Cardinality(mine)
                    /\ Cardinality(other) = Cardinality(mine) =>
                          ConfTotal(sub, other) * Cardinality(mine)
                              <= ConfTotal(sub, mine) * Cardinality(other)

\* a finalized Subtitle of three frames whose text was read twice at
\* confidence 50 and whose other text was read once at confidence 90
C9_Witness ==
    \E k \in DOMAIN FinalizedSubs :
        LET sub == FinalizedSubs[k]
        IN  /\ Len(sub.frames) = 3
            /\ Cardinality(FramesWithText(sub, sub.text)) = 2
            /\ \A i \in FramesWithText(sub, sub.text) : sub.frames[i].confidence = 50
            /\ \E i \in DOMAIN sub.frames :
                    sub.frames[i].text # sub.text /\ sub.frames[i].confidence = 90

---------------------------------------------------------------------------
(* The gap threshold on a constant-frame-rate video: one text, read on some
   frames and not on others *)

GapFrames == 6

InitGap ==
    /\ video \in {CfrVideo(10), CfrVideo(25)}
    /\ args \in [sim_threshold : {80}, max_merge_gap_ms : {0, 50, 100},
                 min_subtitle_duration_ms : {0}]
    /\ validated_zones = OneZone
    /\ \E ks \in KindSeqs(Kinds({T_AB}, {90}, {1}), 1, GapFrames) :
            pred_frames_zone1 = StitchedFrames(ks, 0, 0)
    /\ pred_frames_zone2 = <<>>
    /\ MergeStart

SpecGap == InitGap /\ [][NextZone]_vars

\* the configured max merge gap expressed in frames
MaxGapInFrames == (args.max_merge_gap_ms * video.fps) \div 1000

\* frames i < j of zone 1 that both carry text, with no text between them
NeighbourTexts(i, j) ==
    /\ i < j
    /\ pred_frames_zone1[i].text # <<>>
    /\ pred_frames_zone1[j].text # <<>>
    /\ \A k \in (i + 1)..(j - 1) : pred_frames_zone1[k].text = <<>>

FrameGap(i, j) == pred_frames_zone1[j].start_index - pred_frames_zone1[i].end_index

InSameSub(ss, i, j) ==
    \E k \in DOMAIN ss :
        /\ \E a \in DOMAIN ss[k].frames : ss[k].frames[a] = pred_frames_zone1[i]
        /\ \E b \in DOMAIN ss[k].frames : ss[k].frames[b] = pred_frames_zone1[j]

\* C3 as stated: after Pass 1, neighbouring identical texts are merged when
\* their gap (next.index_start - last.index_end) equals the max merge gap in
\* frames and are not merged when it equals max + 1.
C3_Original ==
    pc = "filter" =>
        \A i, j \in DOMAIN pred_frames_zone1 :
            NeighbourTexts(i, j) =>
                /\ FrameGap(i, j) = MaxGapInFrames => InSameSub(subs, i, j)
                /\ FrameGap(i, j) = MaxGapInFrames + 1 => ~InSameSub(subs, i, j)

\* C3 amended: after Pass 1, neighbouring identical texts are merged when
\* their gap is at most max + 1 frames (so at max and at max + 1) and are
\* not merged when it is max + 2 or more.
C3_GapBoundary ==
    pc = "filter" =>
        \A i, j \in DOMAIN pred_frames_zone1 :
            NeighbourTexts(i, j) =>
                /\ FrameGap(i, j) <= MaxGapInFrames + 1 => InSameSub(subs, i, j)
                /\ FrameGap(i, j) >= MaxGapInFrames + 2 => ~InSameSub(subs, i, j)

\* Pass 1 has merged two texts whose gap is max + 1 with max >= 1, and has
\* kept apart two texts whose gap is max + 2
C3_Witness ==
    /\ pc = "filter"
    /\ MaxGapInFrames >= 1
    /\ \E i, j \in DOMAIN pred_frames_zone1 :
            /\ NeighbourTexts(i, j)
            /\ FrameGap(i, j) = MaxGapInFrames + 1
            /\ InSameSub(subs, i, j)
    /\ \E i, j \in DOMAIN pred_frames_zone1 :
            /\ NeighbourTexts(i, j)
            /\ FrameGap(i, j) = MaxGapInFrames + 2
            /\ ~InSameSub(subs, i, j)

---------------------------------------------------------------------------
(* The gap threshold on a variable-frame-rate video *)

VfrFrames == 5

RECURSIVE DeltaSum(_, _)
DeltaSum(deltas, k) == IF k = 0 THEN 0 ELSE deltas[k] + DeltaSum(deltas, k - 1)

\* Video.__init__ on a VFR source: frame k is shown deltas[k] ms after frame
\* k - 1, and frame 0 at `first` ms
VfrVideo(fps, first, deltas) ==
    [is_vfr |-> TRUE, fps |-> fps,
     frame_timestamps |-> [k \in 0..Len(deltas) |-> first + DeltaSum(deltas, k)],
     start_time_offset_ms |-> 0]

InitVfr ==
    /\ \E ks \in KindSeqs(Kinds({T_AB}, {90}, {1}), 2, VfrFrames) :
            /\ pred_frames_zone1 = StitchedFrames(ks, 0, 0)
            /\ \E first \in {0, 5} : \E deltas \in [1..(Len(ks) - 1) -> {40, 41}] :
                    video = VfrVideo(25, first, deltas)
    /\ args \in [sim_threshold : {80}, max_merge_gap_ms : {0, 40},
                 min_subtitle_duration_ms : {0}]
    /\ validated_zones = OneZone
    /\ pred_frames_zone2 = <<>>
    /\ MergeStart

SpecVfr == InitVfr /\ [][NextZone]_vars

\* (start ms of frame j) - (end ms of frame i), from the timestamp map: a
\* frame ends where the next one starts
GapMs(i, j) ==
    video.frame_timestamps[pred_frames_zone1[j].start_index]
        - video.frame_timestamps[pred_frames_zone1[i].end_index + 1]

\* C4: on a VFR video, after Pass 1, neighbouring identical texts are merged
\* exactly when the millisecond gap read from frame_timestamps is at most
\* max_merge_gap_sec * 1000: merged at the max, kept apart 1 ms above it,
\* whatever the number of frames between them.
C4_VfrGapBoundary ==
    (pc = "filter" /\ video.is_vfr) =>
        \A i, j \in DOMAIN pred_frames_zone1 :
            NeighbourTexts(i, j) =>
                /\ GapMs(i, j) <= args.max_merge_gap_ms => InSameSub(subs, i, j)
                /\ GapMs(i, j) >= args.max_merge_gap_ms + 1 => ~InSameSub(subs, i, j)

\* Pass 1 on a VFR video has merged two texts exactly max ms apart and kept
\* apart two texts max + 1 ms apart, both pairs with one textless frame between
C4_Witness ==
    /\ pc = "filter"
    /\ video.is_vfr
    /\ args.max_merge_gap_ms > 0
    /\ \E i, j \in DOMAIN pred_frames_zone1 :
            /\ NeighbourTexts(i, j) /\ FrameGap(i, j) = 2
            /\ GapMs(i, j) = args.max_merge_gap_ms
            /\ InSameSub(subs, i, j)
    /\ \E i, j \in DOMAIN pred_frames_zone1 :
            /\ NeighbourTexts(i, j) /\ FrameGap(i, j) = 2
            /\ GapMs(i, j) = args.max_merge_gap_ms + 1
            /\ ~InSameSub(subs, i, j)

---------------------------------------------------------------------------
(* The similarity threshold: texts that are 80 % similar *)

T_ABD == <<65, 66, 68>>

SimFrames == 3

InitSim ==
    /\ video = CfrVideo(10)
    /\ args \in [sim_threshold : {80, 81}, max_merge_gap_ms : {100},
                 min_subtitle_duration_ms : {200}]
    /\ validated_zones = OneZone
    /\ \E ks \in KindSeqs(Kinds({T_ABC, T_ABD, T_Q}, {90}, {1, 2}), 1, SimFrames) :
            pred_frames_zone1 = StitchedFrames(ks, 0, 0)
    /\ pred_frames_zone2 = <<>>
    /\ MergeStart

SpecSim == InitSim /\ [][NextZone]_vars

Similarity(t1, t2) == PartialRatio(StripSpaces(t1), StripSpaces(t2))

\* C10: in Pass 1 and in Pass 3, a Subtitle that is gap-mergeable with the
\* last one is merged into it when the similarity of their space-stripped
\* texts is exactly sim_threshold, and is kept apart when it is
\* sim_threshold - 1.
C10_SimBoundary ==
    [][ /\ (pc = "pass1" /\ pred_todo # <<>> /\ subs # <<>>
                /\ Head(pred_todo).text # <<>> /\ Head(pred_todo).confidence > 0
                /\ is_gap_mergeable(Last(subs), PredictedSubtitle(<<Head(pred_todo)>>, 0)))
            => LET sim == Similarity(Last(subs).text, Head(pred_todo).text)
               IN  /\ sim = args.sim_threshold =>
                        /\ Len(subs') = Len(subs)
                        /\ Last(Last(subs').frames) = Head(pred_todo)
                   /\ sim = args.sim_threshold - 1 => Len(subs') = Len(subs) + 1
        /\ (pc = "pass3" /\ filtered_subs # <<>>
                /\ is_gap_mergeable(Last(cleaned_subs), Head(filtered_subs)))
            => LET sim == Similarity(Last(cleaned_subs).text, Head(filtered_subs).text)
               IN  /\ sim = args.sim_threshold =>
                        /\ Len(cleaned_subs') = Len(cleaned_subs)
                        /\ Len(Last(cleaned_subs').frames) =
                              Len(Last(cleaned_subs).frames) + Len(Head(filtered_subs).frames)
                   /\ sim = args.sim_threshold - 1 =>
                        Len(cleaned_subs') = Len(cleaned_subs) + 1
      ]_vars

\* Pass 3 has merged two Subtitles whose finalized texts are exactly
\* sim_threshold similar, after Pass 2 dropped the Subtitle between them
C10_Witness ==
    /\ pc = "pass3"
    /\ filtered_subs = <<>>
    /\ Len(subs) = 3
    /\ ~DurationAtLeastMin(subs[2])
    /\ Similarity(subs[1].text, subs[3].text) = args.sim_threshold
    /\ subs[1].text # subs[3].text
    /\ Len(cleaned_subs) = 1
    /\ Len(cleaned_subs[1].frames) = 2

---------------------------------------------------------------------------
(* Merge idempotence: runs of similar texts on adjacent frames *)

IdemFrames == 5

InitIdem ==
    /\ video = CfrVideo(10)
    /\ args \in [sim_threshold : {80, 100}, max_merge_gap_ms : {0},
                 min_subtitle_duration_ms : {100}]
    /\ validated_zones = OneZone
    /\ \E ks \in KindSeqs(Kinds({T_AB, T_ABC, T_C}, {90}, {1}), 1, IdemFrames) :
            pred_frames_zone1 = StitchedFrames(ks, 0, 0)
    /\ pred_frames_zone2 = <<>>
    /\ MergeStart

SpecIdem == InitIdem /\ [][NextZone]_vars

\* C2: in the list _process_single_zone returns, no two adjacent Subtitles
\* are both gap-mergeable and text-similar (re-applying the merge test to the
\* finalized texts and spans merges nothing).
C2_MergeIdempotence ==
    zone_call = 2 =>
        \A k \in 1..(Len(subs_zone1) - 1) :
            ~(/\ is_gap_mergeable(subs_zone1[k], subs_zone1[k + 1])
              /\ is_similar_to(subs_zone1[k], subs_zone1[k + 1]))

---------------------------------------------------------------------------
(* Dual-zone runs of get_subtitles *)

DualFrames == 3

\* two crop zones, zone 0 above zone 1, below it, or level with it
ZonePairs ==
    {<<ValidatedZone(CropZone(0, 0, 100, 40)), ValidatedZone(CropZone(0, 80, 100, 40))>>,
     <<ValidatedZone(CropZone(0, 80, 100, 40)), ValidatedZone(CropZone(0, 0, 100, 40))>>,
     <<ValidatedZone(CropZone(0, 40, 50, 40)), ValidatedZone(CropZone(50, 40, 50, 40))>>}

InitDual ==
    /\ video = CfrVideo(10)
    /\ args \in [sim_threshold : {80}, max_merge_gap_ms : {0},
                 min_subtitle_duration_ms : {100}]
    /\ validated_zones \in ZonePairs
    /\ \E n \in 1..DualFrames :
        \E k1, k2 \in [1..n -> Kinds({T_AB, T_C}, {90}, {1})] :
            /\ pred_frames_zone1 = StitchedFrames(k1, 0, 0)
            /\ pred_frames_zone2 = StitchedFrames(k2, 1, 0)
    /\ MergeStart

NextDual ==
    \/ ProcessZoneBegin
    \/ Pass1Step
    \/ FinalizeSubs
    \/ FilterSubs
    \/ Pass3Step
    \/ ZoneReturn
    \/ Combine
    \/ DualMergeStep
    \/ DualReturn

SpecDual == InitDual /\ [][NextDual]_vars

MidpointOf(zone_index) == validated_zones[zone_index + 1].midpoint_y

\* C5: in every accumulated entry of the cross-zone merge, each text taken
\* from the zone with the smaller midpoint_y stands before each text taken
\* from the zone with the larger midpoint_y.
C5_StrictOrdering ==
    \A k \in DOMAIN merged_subs :
        LET tz == merged_subs[k].text_zones
        IN  \A i, j \in DOMAIN tz :
                i < j => MidpointOf(tz[i]) <= MidpointOf(tz[j])

\* the two Subtitles of a two-Subtitle cross-zone merge, in sorted order
FirstOfPair ==
    IF index_start(subs_zone2[1]) < index_start(subs_zone1[1])
    THEN subs_zone2[1] ELSE subs_zone1[1]

SecondOfPair ==
    IF index_start(subs_zone2[1]) < index_start(subs_zone1[1])
    THEN subs_zone1[1] ELSE subs_zone2[1]

UpperOfPair ==
    IF MidpointOf(subs_zone1[1].zone_index) < MidpointOf(subs_zone2[1].zone_index)
    THEN subs_zone1[1] ELSE subs_zone2[1]

LowerOfPair ==
    IF MidpointOf(subs_zone1[1].zone_index) < MidpointOf(subs_zone2[1].zone_index)
    THEN subs_zone2[1] ELSE subs_zone1[1]

OnePerZone ==
    /\ pc = "done"
    /\ Len(subs_zone1) = 1
    /\ Len(subs_zone2) = 1
    /\ MidpointOf(0) # MidpointOf(1)

\* C6: one Subtitle per zone.  If the later one starts at or before the end
\* of the earlier one, the result is one Subtitle whose text is the upper
\* zone's text, a newline, the lower zone's text; otherwise the two stay
\* separate, in start order.
C6_PairOrdering ==
    OnePerZone =>
        IF index_start(SecondOfPair) <= index_end(FirstOfPair)
        THEN /\ Len(pred_subs) = 1
             /\ pred_subs[1].text = UpperOfPair.text \o <<NL>> \o LowerOfPair.text
        ELSE /\ Len(pred_subs) = 2
             /\ pred_subs[1].text = FirstOfPair.text
             /\ pred_subs[2].text = SecondOfPair.text

\* two overlapping Subtitles with different texts were merged, the lower
\* zone being zone 0 and its Subtitle the one that starts first
C6_Witness ==
    /\ OnePerZone
    /\ MidpointOf(0) > MidpointOf(1)
    /\ index_start(subs_zone1[1]) < index_start(subs_zone2[1])
    /\ index_start(subs_zone2[1]) <= index_end(subs_zone1[1])
    /\ subs_zone1[1].text # subs_zone2[1].text
    /\ Len(pred_subs) = 1
    /\ pred_subs[1].text = subs_zone2[1].text \o <<NL>> \o subs_zone1[1].text

---------------------------------------------------------------------------
(* One run from the engine's results to pred_subs: a 10-fps video of 100   *)
(* frames, every frame sampled and kept, one zone, HELLO read with score   *)
(* 90 on frames 10-40 and 42-60 and nothing on the other frames.           *)

HelloOutput(frame_index) ==
    IF frame_index \in (10..40) \cup (42..60)
    THEN <<[bounding_box |-> Box(10, 10, 30, 20), text |-> HELLO, score |-> 90]>>
    ELSE <<>>

InitE2E ==
    /\ pc = "map"
    /\ video = [is_vfr |-> FALSE, fps |-> 10, frame_timestamps |-> <<>>,
                start_time_offset_ms |-> 0, height |-> 120, width |-> 100,
                num_frames |-> 100, stream_frames |-> 100,
                can_open |-> TRUE, paddleocr_is_file |-> TRUE]
    /\ run_args = [time_start |-> <<>>, time_end |-> <<>>, frames_to_skip |-> 0,
                   ssim_threshold |-> 100, subtitle_position |-> "center",
                   use_fullframe |-> FALSE,
                   crop_zones |-> <<CropZone(0, 80, 100, 40)>>,
                   conf_threshold |-> 75, lang |-> "en"]
    /\ args \in [sim_threshold : {100}, max_merge_gap_ms : {0, 300},
                 min_subtitle_duration_ms : {200}]
    /\ os_env = [pid |-> 1, live_pids |-> {1}, base_temp |-> {ScratchDir(1, 0)}]
    /\ temp_dir = {ScratchDir(1, 0)}
    /\ validated_zones = OneZone
    /\ ocr_start = 0
    /\ ocr_end = 100
    /\ decoded = 100
    /\ loop_i = 100
    /\ prev_samples = <<<<>>>>
    /\ frame_paths = [k \in 1..100 |-> FrameFilename(k - 1, Len(Digits(100)), 0)]
    /\ ocr_outputs = [path \in {FrameFilename(k, Len(Digits(100)), 0) : k \in 0..99}
                        |-> HelloOutput(ParseInt(path.digits))]
    /\ exit_code = 0
    /\ frame_predictions_by_zone = <<>>
    /\ NoEngine
    /\ AlreadyConstructed
    /\ NoSweep
    /\ NoCommandLine
    /\ ContentOpen
    /\ NoWindow
    /\ pred_frames_zone1 = <<>>
    /\ pred_frames_zone2 = <<>>
    /\ MergeLocalsEmpty

NextE2E ==
    \/ MapFrames
    \/ Stitch
    \/ GetSubtitles
    \/ ProcessZoneBegin
    \/ Pass1Step
    \/ FinalizeSubs
    \/ FilterSubs
    \/ Pass3Step
    \/ ZoneReturn
    \/ Combine

SpecE2E == InitE2E /\ [][NextE2E]_vars

\* C8: with a max merge gap of 3 frames (0.3 s at 10 fps) and similarity
\* 100, the run ends with exactly one Subtitle, index_start 10, index_end
\* 60, text HELLO.
C8_EndToEnd ==
    (pc = "done" /\ args.max_merge_gap_ms = 300) =>
        /\ Len(pred_subs) = 1
        /\ index_start(pred_subs[1]) = 10
        /\ index_end(pred_subs[1]) = 60
        /\ pred_subs[1].text = HELLO

\* the run has ended on the 100 stitched frames, HELLO on frame 40 and on
\* frame 42 and nothing on frame 41, with the gap of 3 frames allowed
C8_Witness ==
    /\ pc = "done"
    /\ args.max_merge_gap_ms = 300
    /\ args.sim_threshold = 100
    /\ Len(pred_frames_zone1) = 100
    /\ pred_frames_zone1[41].text = HELLO
    /\ pred_frames_zone1[42].text = <<>>
    /\ pred_frames_zone1[43].text = HELLO
    /\ pred_subs # <<>>

---------------------------------------------------------------------------
(* Pass 2 of _process_single_zone on a constant-frame-rate video *)

\* the CFR duration of a Subtitle, in ms times fps
CfrDurationTimesFps(sub) == (index_end(sub) + 1 - index_start(sub)) * 1000

\* the Subtitles Pass 2 has let through, as the step leaves them
KeptByFilter == {cleaned_subs'[k] : k \in DOMAIN cleaned_subs'}
                    \cup {filtered_subs'[k] : k \in DOMAIN filtered_subs'}

\* C11: Pass 2 keeps a Subtitle if and only if (index_end + 1 - index_start)
\* / fps >= min_subtitle_duration_sec; one lasting exactly the minimum is
\* kept, a shorter one is dropped.
C11_DurationFilter ==
    [][pc = "filter" =>
        \A k \in DOMAIN subs :
            IF CfrDurationTimesFps(subs[k]) >= args.min_subtitle_duration_ms * video.fps
            THEN pc' = "pass3" /\ subs[k] \in KeptByFilter
            ELSE pc' = "pass3" => subs[k] \notin KeptByFilter]_vars

\* Pass 2 has just run on a Subtitle lasting exactly the minimum, which it
\* kept, and on a shorter one, which it dropped
C11_Witness ==
    /\ pc = "pass3"
    /\ Len(cleaned_subs) = 1
    /\ filtered_subs = <<>>
    /\ \E k, j \in DOMAIN subs :
        /\ CfrDurationTimesFps(subs[k]) = args.min_subtitle_duration_ms * video.fps
        /\ cleaned_subs[1] = subs[k]
        /\ CfrDurationTimesFps(subs[j]) < args.min_subtitle_duration_ms * video.fps

---------------------------------------------------------------------------
(* The emitted times of a variable-frame-rate video *)

SrtFrames == 4

InitSrt ==
    /\ \E ks \in KindSeqs(Kinds({T_AB}, {90}, {1}), 2, SrtFrames) :
            /\ pred_frames_zone1 = StitchedFrames(ks, 0, 0)
            /\ \E first \in {0, 5} : \E offset \in {0, 5} :
               \E deltas \in [1..(Len(ks) - 1) -> {40, 50}] :
                    video = [VfrVideo(25, first, deltas) EXCEPT
                                !.start_time_offset_ms = offset]
    /\ args \in [sim_threshold : {80}, max_merge_gap_ms : {0},
                 min_subtitle_duration_ms : {0}]
    /\ validated_zones = OneZone
    /\ pred_frames_zone2 = <<>>
    /\ MergeStart

NextSrt ==
    \/ ProcessZoneBegin
    \/ Pass1Step
    \/ FinalizeSubs
    \/ FilterSubs
    \/ Pass3Step
    \/ ZoneReturn
    \/ Combine
    \/ EmitSrt

SpecSrt == InitSrt /\ [][NextSrt]_vars

\* the milliseconds an emitted timestamp reads as
SrtMs(stamp) ==
    ((ParseInt(stamp.hours) * 60 + ParseInt(stamp.minutes)) * 60
        + ParseInt(stamp.seconds)) * 1000 + ParseInt(stamp.milliseconds)

\* frame_timestamps[0] - start_time_offset_ms
CorrectionDelta == video.frame_timestamps[0] - video.start_time_offset_ms

\* C12: on a VFR video the emitted start time of a Subtitle is the
\* frame_timestamps entry of index_start and the end time the entry of
\* index_end + 1 where the table has one, both less the correction delta.
C12_VfrTimesFromTable ==
    (pc = "emitted" /\ video.is_vfr) =>
        \A i \in DOMAIN srt_lines :
            /\ SrtMs(srt_lines[i].start_time)
                 = video.frame_timestamps[index_start(pred_subs[i])] - CorrectionDelta
            /\ (index_end(pred_subs[i]) + 1) \in DOMAIN video.frame_timestamps =>
                    SrtMs(srt_lines[i].end_time)
                      = video.frame_timestamps[index_end(pred_subs[i]) + 1] - CorrectionDelta

\* frame_timestamps {0: 0, 1: 40, 2: 90}, offset 0, one Subtitle over the
\* indices 0-1, emitted as 0 ms to 90 ms
C12_Witness ==
    /\ pc = "emitted"
    /\ video.is_vfr
    /\ video.start_time_offset_ms = 0
    /\ video.frame_timestamps = [k \in 0..2 |-> IF k = 0 THEN 0 ELSE IF k = 1 THEN 40 ELSE 90]
    /\ Len(pred_subs) = 1
    /\ index_start(pred_subs[1]) = 0
    /\ index_end(pred_subs[1]) = 1
    /\ SrtMs(srt_lines[1].start_time) = 0
    /\ SrtMs(srt_lines[1].end_time) = 90

\* the end of a Subtitle in the table's milliseconds: the entry of the frame
\* after its last one, or the entry of its last frame and one frame at fps
EndInTable(sub) ==
    IF (index_end(sub) + 1) \in DOMAIN video.frame_timestamps
    THEN video.frame_timestamps[index_end(sub) + 1]
    ELSE video.frame_timestamps[index_end(sub)] + 1000 \div video.fps

\* C31: on a VFR video the emitted end time of a Subtitle is the entry of
\* index_end + 1, or without one the entry of index_end plus 1000/fps; start
\* and end are both less the same delta, a Subtitle that starts at frame 0
\* starts at start_time_offset_ms, and every emitted start time is before
\* its end time (the timestamps increase with the index).
C31_VfrEndEstimateAndAlignment ==
    (pc = "emitted" /\ video.is_vfr) =>
        \A i \in DOMAIN srt_lines :
            /\ SrtMs(srt_lines[i].end_time) = EndInTable(pred_subs[i]) - CorrectionDelta
            /\ SrtMs(srt_lines[i].start_time)
                    = video.frame_timestamps[index_start(pred_subs[i])] - CorrectionDelta
            /\ index_start(pred_subs[i]) = 0 =>
                    SrtMs(srt_lines[i].start_time) = video.start_time_offset_ms
            /\ SrtMs(srt_lines[i].start_time) < SrtMs(srt_lines[i].end_time)

\* the last Subtitle is the last frame alone, which has no entry after it:
\* it is emitted as lasting 1000/fps; frame 0 is at 5 ms, the offset 0
C31_Witness ==
    /\ pc = "emitted"
    /\ video.is_vfr
    /\ video.frame_timestamps[0] = 5
    /\ video.start_time_offset_ms = 0
    /\ Len(pred_subs) = 2
    /\ index_start(pred_subs[1]) = 0
    /\ index_start(pred_subs[2]) = index_end(pred_subs[2])
    /\ (index_end(pred_subs[2]) + 1) \notin DOMAIN video.frame_timestamps
    /\ SrtMs(srt_lines[2].end_time) - SrtMs(srt_lines[2].start_time) = 40

---------------------------------------------------------------------------
(* Pass 1 on frames without text *)

EmptyFrames == 4

\* what PredictedFrames.__init__ can leave in a frame: no detection (text '',
\* confidence 100), detections all under conf_threshold (text '', confidence
\* 0), words (their text, which may be '', and their mean confidence, which
\* may be 0)
EmptyKinds ==
    [text : {T_AB, T_C, <<>>}, confidence : {0, 90}, span : {1}]
        \cup [text : {<<>>}, confidence : {100}, span : {1}]

InitEmpty ==
    /\ video = CfrVideo(10)
    /\ args = [sim_threshold |-> 80, max_merge_gap_ms |-> 100,
               min_subtitle_duration_ms |-> 100]
    /\ validated_zones = OneZone
    /\ \E ks \in KindSeqs(EmptyKinds, 1, EmptyFrames) :
            pred_frames_zone1 = StitchedFrames(ks, 0, 0)
    /\ pred_frames_zone2 = <<>>
    /\ MergeStart

SpecEmpty == InitEmpty /\ [][NextZone]_vars

IsEmptyFrame(frame) == frame.text = <<>> \/ frame.confidence <= 0

FramesOf(ss) == UNION {{ss[k].frames[i] : i \in DOMAIN ss[k].frames} : k \in DOMAIN ss}

\* the frames Pass 1 has walked over in the current call
Walked ==
    {pred_frames_zone1[i] : i \in DOMAIN pred_frames_zone1}
        \ {pred_todo[i] : i \in DOMAIN pred_todo}

\* C16: no frame with empty text or confidence 0 is in any Subtitle, at any
\* stage of the merge; during Pass 1 the frames in Subtitles are exactly the
\* frames walked over that have text and a confidence above 0.
C16_NoEmptyFrameInSubtitle ==
    /\ \A frame \in FramesOf(subs) \cup FramesOf(filtered_subs) \cup FramesOf(cleaned_subs)
                        \cup FramesOf(subs_zone1) \cup FramesOf(subs_zone2)
                        \cup FramesOf(all_subs) \cup FramesOf(merged_subs)
                        \cup FramesOf(pred_subs) :
            ~IsEmptyFrame(frame)
    /\ (pc = "pass1" /\ zone_call = 1) =>
            FramesOf(subs) = {frame \in Walked : ~IsEmptyFrame(frame)}

\* Subtitles came out of frames among which one had no text at confidence
\* 100, one had no text at confidence 0 and one had text at confidence 0
C16_Witness ==
    /\ pred_subs # <<>>
    /\ \E i, j, k \in DOMAIN pred_frames_zone1 :
          /\ pred_frames_zone1[i].text = <<>> /\ pred_frames_zone1[i].confidence = 100
          /\ pred_frames_zone1[j].text = <<>> /\ pred_frames_zone1[j].confidence = 0
          /\ pred_frames_zone1[k].text # <<>> /\ pred_frames_zone1[k].confidence = 0

---------------------------------------------------------------------------
(* The crop-zone validation of run_ocr *)

\* one crop zone with its origin left of, above, inside, right of or below
\* the 100 x 120 frame, and an extent that stays inside or passes the edge
OriginZones ==
    {CropZone(x, y, w, h) : x \in {0 - 1, 0, 100}, y \in {0 - 1, 80, 120},
                            w \in {50, 200}, h \in {40, 100}}

InitOrigin ==
    /\ pc = "run_ocr"
    /\ video = [is_vfr |-> FALSE, fps |-> 10, frame_timestamps |-> <<>>,
                start_time_offset_ms |-> 0, height |-> 120, width |-> 100,
                num_frames |-> 2, stream_frames |-> 2,
                can_open |-> TRUE, paddleocr_is_file |-> TRUE]
    /\ \E zone \in OriginZones :
            run_args = [time_start |-> <<>>, time_end |-> <<>>, frames_to_skip |-> 0,
                        ssim_threshold |-> 100, subtitle_position |-> "center",
                        use_fullframe |-> FALSE, crop_zones |-> <<zone>>,
                        conf_threshold |-> 75, lang |-> "en"]
    /\ args = [sim_threshold |-> 80, max_merge_gap_ms |-> 0,
               min_subtitle_duration_ms |-> 100]
    /\ os_env = [pid |-> 1, live_pids |-> {1}, base_temp |-> {}]
    /\ validated_zones = <<>>
    /\ pred_frames_zone1 = <<>>
    /\ pred_frames_zone2 = <<>>
    /\ MergeLocalsEmpty
    /\ ocr_start = 0
    /\ ocr_end = 0
    /\ temp_dir = {}
    /\ decoded = 0
    /\ loop_i = 0
    /\ prev_samples = <<>>
    /\ frame_paths = <<>>
    /\ ocr_outputs = <<>>
    /\ exit_code = 0
    /\ frame_predictions_by_zone = <<>>
    /\ NoEngine
    /\ AlreadyConstructed
    /\ NoSweep
    /\ NoCommandLine
    /\ ContentOpen
    /\ NoWindow

SpecOrigin == InitOrigin /\ [][NextRun]_vars

OriginOutside(zone) ==
    zone.x < 0 \/ zone.y < 0 \/ zone.x >= video.width \/ zone.y >= video.height

ExtentPassesEdge(zone) ==
    zone.x + zone.width > video.width \/ zone.y + zone.height > video.height

\* C17: once the validation has run, a crop zone whose origin is outside the
\* frame (x < 0, y < 0, x >= width or y >= height) has made run_ocr raise,
\* and a zone whose origin is inside the frame has not, also when its extent
\* passes the frame edge.
C17_OriginValidation ==
    pc # "run_ocr" =>
        \A k \in DOMAIN run_args.crop_zones :
            /\ OriginOutside(run_args.crop_zones[k]) => pc = "raised"
            /\ (~OriginOutside(run_args.crop_zones[k]) /\ ocr_end >= ocr_start) =>
                    pc # "raised"

\* the part of C17 that run_ocr keeps: an origin at or past the right or the
\* bottom edge raises, and an origin inside the frame never does
C17_OriginPastEdgeRaises ==
    pc # "run_ocr" =>
        \A k \in DOMAIN run_args.crop_zones :
            /\ ZoneRaises(run_args.crop_zones[k]) => pc = "raised"
            /\ (~OriginOutside(run_args.crop_zones[k]) /\ ocr_end >= ocr_start) =>
                    pc # "raised"

\* a zone with a negative origin was accepted and the run went on to decode
C17_NegativeOriginAccepted ==
    /\ pc = "ocr_done"
    /\ \E k \in DOMAIN run_args.crop_zones : run_args.crop_zones[k].x < 0
    /\ Len(validated_zones) = 1
    /\ validated_zones[1].x_start < 0
    /\ decoded > 0

---------------------------------------------------------------------------
(* The sweep of leftover scratch directories beside other processes *)

\* process ids other than this run's own (1)
OtherPids == {2, 3}

InitSweep ==
    /\ pc = "mkdtemp"
    /\ video = [is_vfr |-> FALSE, fps |-> 10, frame_timestamps |-> <<>>,
                start_time_offset_ms |-> 0, height |-> 120, width |-> 100,
                num_frames |-> 2, stream_frames |-> 2,
                can_open |-> TRUE, paddleocr_is_file |-> TRUE]
    /\ run_args = [time_start |-> <<>>, time_end |-> <<>>, frames_to_skip |-> 0,
                   ssim_threshold |-> 100, subtitle_position |-> "center",
                   use_fullframe |-> FALSE,
                   crop_zones |-> <<CropZone(0, 80, 100, 40)>>,
                   conf_threshold |-> 75, lang |-> "en"]
    /\ args = [sim_threshold |-> 80, max_merge_gap_ms |-> 0,
               min_subtitle_duration_ms |-> 100]
    /\ \E live \in SUBSET OtherPids :
       \E dirs \in SUBSET {ScratchDir(p, 0) : p \in OtherPids \cup {1}} :
            os_env = [pid |-> 1, live_pids |-> live \cup {1}, base_temp |-> dirs]
    /\ validated_zones = OneZone
    /\ pred_frames_zone1 = <<>>
    /\ pred_frames_zone2 = <<>>
    /\ MergeLocalsEmpty
    /\ ocr_start = 0
    /\ ocr_end = 2
    /\ temp_dir = {}
    /\ decoded = 0
    /\ loop_i = 0
    /\ prev_samples = <<>>
    /\ frame_paths = <<>>
    /\ ocr_outputs = <<>>
    /\ exit_code = 0
    /\ frame_predictions_by_zone = <<>>
    /\ NoEngine
    /\ AlreadyConstructed
    /\ platform_system \in {"Linux", "Windows"}
    /\ sweep_pc = "idle"
    /\ sweep_todo = {}
    /\ deleted_live = {}
    /\ NoCommandLine
    /\ ContentOpen
    /\ NoWindow

NextSweep ==
    \/ SweepList
    \/ SweepStep
    \/ SweepMkdtemp
    \/ OtherProcessExits
    \/ OtherRunMkdtemp

SpecSweep == InitSweep /\ [][NextSweep]_vars

\* C15: the sweep removes a scratch directory only if the process id in its
\* name belongs to no running process: no directory of a running process is
\* ever removed, whatever the other processes do meanwhile.
C15_ReclaimsOnlyDead == deleted_live = {}

\* where is_process_running reads /proc, no directory of a running process
\* is removed, and the run's own directories are never removed
C15_ReclaimsOnlyDeadByProc ==
    /\ platform_system = "Linux" => deleted_live = {}
    /\ \A d \in deleted_live : d.pid # os_env.pid

\* on Windows a directory of a process that still runs has been removed
C15_LiveDirectoryRemoved ==
    /\ platform_system = "Windows"
    /\ \E d \in deleted_live : d.pid \in os_env.live_pids /\ d \notin os_env.base_temp

---------------------------------------------------------------------------
(* pyav_adapter.py: get_video_properties, called by Video.__init__.  The   *)
(* file is known by `source`: what MediaInfo reports (is_vfr, frame_rate,  *)
(* frame_count; 0 when absent), what the PyAV stream reports               *)
(* (average_rate, stream_frames; 0 when unknown), and pts, the timestamps  *)
(* in ms of the frames its decoder delivers.                                *)

VFR_TIMESTAMP_BUFFER_MS == 500

\* stop_at_ms, <<>> standing for None
StopAtMs ==
    IF ctor_time_end # <<>>
    THEN <<get_ms_from_time_str(ctor_time_end) + props.start_time_offset_ms
                + VFR_TIMESTAMP_BUFFER_MS>>
    ELSE <<>>

\* stop_at_ms and timestamp_ms > stop_at_ms
StopsAt(timestamp_ms) ==
    /\ StopAtMs # <<>>
    /\ StopAtMs[1] # 0
    /\ timestamp_ms > StopAtMs[1]

\* videocr_cli.main: the test of the time range before anything is opened
CliCheck ==
    /\ pc = "cli"
    /\ pc' = IF /\ run_args.time_start # <<>>
                /\ run_args.time_end # <<>>
                /\ get_ms_from_time_str(run_args.time_start)
                        > get_ms_from_time_str(run_args.time_end)
             THEN "raised"
             ELSE "cli_zones"
    /\ UNCHANGED <<mergeVars, runVars, pipeVars, ctorVars, sweepVars>>
    /\ UNCHANGED inputVars
    /\ UNCHANGED guiVars

\* the four coordinates of a zone on the command line; a coordinate that was
\* not given is None, here the empty sequence, and a given one <<v>>
is_zone_full(zone_vars) == \A k \in 1..4 : zone_vars[k] # <<>>

is_zone_empty(zone_vars) == \A k \in 1..4 : zone_vars[k] = <<>>

ZoneOfVars(zone_vars) ==
    CropZone(zone_vars[1][1], zone_vars[2][1], zone_vars[3][1], zone_vars[4][1])

\* the zones main has collected after looking at zone 1
ZonesAfterZone1(a) ==
    IF is_zone_full(a.zone1) THEN <<ZoneOfVars(a.zone1)>> ELSE <<>>

\* an assembly that looks at zone 1 only
ZoneAssemblyRaisesOnZone1Only(a) ==
    /\ ~a.use_fullframe
    /\ ~is_zone_full(a.zone1) /\ ~is_zone_empty(a.zone1)

\* main raises ValueError while it assembles crop_zones
ZoneAssemblyRaises(a) ==
    /\ ~a.use_fullframe
    /\ \/ ~is_zone_full(a.zone1) /\ ~is_zone_empty(a.zone1)
       \/ /\ a.use_dual_zone
          /\ \/ ~is_zone_full(a.zone2) /\ ~is_zone_empty(a.zone2)
             \/ is_zone_empty(a.zone2) /\ is_zone_full(a.zone1)

\* crop_zones as main hands it to save_subtitles_to_file
AssembledZones(a) ==
    IF a.use_fullframe THEN <<>>
    ELSE IF a.use_dual_zone /\ is_zone_full(a.zone2)
         THEN Append(ZonesAfterZone1(a), ZoneOfVars(a.zone2))
         ELSE ZonesAfterZone1(a)

\* main: the assembly of crop_zones from the eight coordinates, up to the
\* call of save_subtitles_to_file
CliZones ==
    /\ pc = "cli_zones"
    /\ IF ZoneAssemblyRaises(cli_args)
       THEN /\ pc' = "raised"
            /\ UNCHANGED run_args
       ELSE /\ pc' = "construct"
            /\ run_args' = [run_args EXCEPT !.crop_zones = AssembledZones(cli_args)]
    /\ UNCHANGED <<os_env, ocr_start, ocr_end, temp_dir, decoded, loop_i,
                   prev_samples, frame_paths, ocr_outputs, exit_code,
                   frame_predictions_by_zone>>
    /\ UNCHANGED <<mergeVars, pipeVars, ctorVars, sweepVars>>
    /\ UNCHANGED inputVars
    /\ UNCHANGED guiVars

\* get_video_properties up to the mapping loops
GetVideoPropertiesBegin ==
    /\ pc = "construct"
    /\ mapper_pc = "idle"
    /\ LET num_frames == IF source.frame_count > 0 THEN source.frame_count
                         ELSE IF source.stream_frames > 0 THEN source.stream_frames
                         ELSE source.frame_count
       IN  /\ props' = [height |-> source.height,
                        width  |-> source.width,
                        fps    |-> IF source.frame_rate > 0 THEN source.frame_rate
                                   ELSE source.average_rate,
                        num_frames |-> num_frames,
                        start_time_offset_ms |-> source.start_time_ms,
                        frame_timestamps |-> <<>>]
           /\ mapper_pc' = IF ~source.is_vfr THEN "done"
                           ELSE IF num_frames > 0 THEN "known" ELSE "unknown"
    /\ map_i' = 0
    /\ stopped_early' = FALSE
    /\ UNCHANGED <<pc, mergeVars, runVars, pipeVars, sweepVars>>
    /\ UNCHANGED <<source, ctor_time_end, map_decoded>>
    /\ UNCHANGED inputVars
    /\ UNCHANGED guiVars

\* one iteration of `for i in range(num_frames_to_map)`, or its end
MapKnownStep ==
    /\ mapper_pc = "known"
    /\ IF map_i >= props.num_frames
       THEN /\ mapper_pc' = "done"
            /\ UNCHANGED <<props, map_i, map_decoded, stopped_early>>
       ELSE IF map_decoded < Len(source.pts)
       THEN LET timestamp_ms == source.pts[map_decoded + 1]
            IN  /\ props' = [props EXCEPT !.frame_timestamps = Put(@, map_i, timestamp_ms)]
                /\ map_decoded' = map_decoded + 1
                /\ IF StopsAt(timestamp_ms)
                   THEN /\ stopped_early' = TRUE
                        /\ mapper_pc' = "done"
                        /\ UNCHANGED map_i
                   ELSE /\ map_i' = map_i + 1
                        /\ UNCHANGED <<stopped_early, mapper_pc>>
       ELSE /\ props' = [props EXCEPT !.num_frames = map_i]
            /\ mapper_pc' = "done"
            /\ UNCHANGED <<map_i, map_decoded, stopped_early>>
    /\ UNCHANGED <<pc, mergeVars, runVars, pipeVars, sweepVars>>
    /\ UNCHANGED <<source, ctor_time_end>>
    /\ UNCHANGED inputVars
    /\ UNCHANGED guiVars

\* one iteration of the `while True` loop for an unknown frame count
MapUnknownStep ==
    /\ mapper_pc = "unknown"
    /\ IF map_decoded < Len(source.pts)
       THEN LET timestamp_ms == source.pts[map_decoded + 1]
            IN  /\ map_decoded' = map_decoded + 1
                /\ IF StopsAt(timestamp_ms)
                   THEN /\ props' = [props EXCEPT
                                        !.frame_timestamps = Put(@, map_i, timestamp_ms),
                                        !.num_frames = map_i + 1]
                        /\ stopped_early' = TRUE
                        /\ mapper_pc' = "done"
                        /\ UNCHANGED map_i
                   ELSE /\ props' = [props EXCEPT
                                        !.frame_timestamps = Put(@, map_i, timestamp_ms)]
                        /\ map_i' = map_i + 1
                        /\ UNCHANGED <<stopped_early, mapper_pc>>
       ELSE /\ props' = [props EXCEPT !.num_frames = map_i]
            /\ mapper_pc' = "done"
            /\ UNCHANGED <<map_i, map_decoded, stopped_early>>
    /\ UNCHANGED <<pc, mergeVars, runVars, pipeVars, sweepVars>>
    /\ UNCHANGED <<source, ctor_time_end>>
    /\ UNCHANGED inputVars
    /\ UNCHANGED guiVars

\* get_video_properties returns and Video.__init__ takes over its values
ConstructEnd ==
    /\ pc = "construct"
    /\ mapper_pc = "done"
    /\ video' = [is_vfr |-> source.is_vfr,
                 fps |-> props.fps,
                 frame_timestamps |-> props.frame_timestamps,
                 start_time_offset_ms |-> props.start_time_offset_ms,
                 height |-> props.height,
                 width |-> props.width,
                 num_frames |-> props.num_frames,
                 stream_frames |-> Len(source.pts),
                 can_open |-> source.can_open,
                 paddleocr_is_file |-> source.paddleocr_is_file]
    /\ mapper_pc' = "returned"
    /\ pc' = "run_ocr"
    /\ UNCHANGED <<args, validated_zones, pred_frames_zone1, pred_frames_zone2,
                   pred_subs, zone_call, pred_todo, subs, filtered_subs, cleaned_subs,
                   subs_zone1, subs_zone2, all_subs, merged_subs, srt_lines>>
    /\ UNCHANGED <<runVars, pipeVars, sweepVars>>
    /\ UNCHANGED <<source, ctor_time_end, props, map_i, map_decoded, stopped_early>>
    /\ UNCHANGED inputVars
    /\ UNCHANGED guiVars

---------------------------------------------------------------------------
(* The timestamp mapper on its own *)

MapperFrames == 4

\* a file of n frames, frame k shown deltas[k] ms after frame k - 1
Source(is_vfr, deltas, frame_count, stream_frames) ==
    [is_vfr |-> is_vfr, frame_rate |-> 10, average_rate |-> 10,
     frame_count |-> frame_count, stream_frames |-> stream_frames,
     pts |-> [k \in 1..(Len(deltas) + 1) |-> DeltaSum(deltas, k - 1)],
     start_time_ms |-> 0, height |-> 120, width |-> 100,
     can_open |-> TRUE, paddleocr_is_file |-> TRUE]

\* the state before Video.__init__: nothing opened, nothing run
NotConstructed ==
    /\ video = <<>>
    /\ args = [sim_threshold |-> 80, max_merge_gap_ms |-> 0,
               min_subtitle_duration_ms |-> 100]
    /\ os_env = [pid |-> 1, live_pids |-> {1}, base_temp |-> {}]
    /\ validated_zones = <<>>
    /\ pred_frames_zone1 = <<>>
    /\ pred_frames_zone2 = <<>>
    /\ MergeLocalsEmpty
    /\ ocr_start = 0
    /\ ocr_end = 0
    /\ temp_dir = {}
    /\ decoded = 0
    /\ loop_i = 0
    /\ prev_samples = <<>>
    /\ frame_paths = <<>>
    /\ ocr_outputs = <<>>
    /\ exit_code = 0
    /\ frame_predictions_by_zone = <<>>
    /\ NoEngine
    /\ NoSweep
    /\ ContentOpen
    /\ props = <<>>
    /\ mapper_pc = "idle"
    /\ map_i = 0
    /\ map_decoded = 0
    /\ stopped_early = FALSE

InitMapper ==
    /\ pc = "construct"
    /\ \E n \in 1..MapperFrames : \E deltas \in [1..(n - 1) -> {300, 400}] :
       \E is_vfr \in BOOLEAN : \E frame_count \in {0, n, n + 1} :
       \E stream_frames \in {0, n} :
            source = Source(is_vfr, deltas, frame_count, stream_frames)
    /\ ctor_time_end \in {<<>>, <<0, 0>>, <<0, 300>>}
    /\ run_args = [time_start |-> <<>>, time_end |-> ctor_time_end, frames_to_skip |-> 0,
                   ssim_threshold |-> 100, subtitle_position |-> "center",
                   use_fullframe |-> FALSE,
                   crop_zones |-> <<CropZone(0, 80, 100, 40)>>,
                   conf_threshold |-> 75, lang |-> "en"]
    /\ NotConstructed
    /\ NoWindow
    /\ NoCommandLine

NextMapper ==
    \/ GetVideoPropertiesBegin
    \/ MapKnownStep
    \/ MapUnknownStep
    \/ ConstructEnd

SpecMapper == InitMapper /\ [][NextMapper]_vars

\* the number of frames the mapper has recorded
FramesMapped == Cardinality(DOMAIN props.frame_timestamps)

\* the frames are recorded under 0 .. FramesMapped - 1, and only the last
\* recorded timestamp can exceed stop_at_ms, which is when the mapper has
\* stopped early
StopsAtFirstPastEnd ==
    /\ DOMAIN props.frame_timestamps = 0..(FramesMapped - 1)
    /\ \A k \in DOMAIN props.frame_timestamps :
            StopsAt(props.frame_timestamps[k]) =>
                (k = FramesMapped - 1 /\ stopped_early)
    /\ stopped_early => StopsAt(props.frame_timestamps[FramesMapped - 1])

\* C20: on a VFR source with a target end time the mapper stops at the first
\* frame whose timestamp exceeds target_end_ms + 500, that frame being
\* recorded, and after an early stop num_frames is the number of frames
\* mapped, whether the frame count was known upfront or not.
C20_EarlyStopFrameCount ==
    mapper_pc \in {"done", "returned"} /\ source.is_vfr =>
        /\ StopsAtFirstPastEnd
        /\ stopped_early => props.num_frames = FramesMapped

\* what the mapper keeps: the stopping rule in both loops, and the frame
\* count after an early stop when the count was not known upfront
C20_EarlyStopFrameCountIfUnknown ==
    mapper_pc \in {"done", "returned"} /\ source.is_vfr =>
        /\ StopsAtFirstPastEnd
        /\ (stopped_early /\ source.frame_count <= 0 /\ source.stream_frames <= 0) =>
                props.num_frames = FramesMapped

\* the mapper stopped early on a source whose frame count was known, with
\* frames left unmapped
C20_StoppedEarlyWithKnownCount ==
    /\ mapper_pc = "done"
    /\ stopped_early
    /\ source.frame_count > 0
    /\ FramesMapped < Len(source.pts)
    /\ props.num_frames > FramesMapped

\* both frame counts are reported and they differ
CountsDisagree ==
    /\ source.frame_count > 0
    /\ source.stream_frames > 0
    /\ source.frame_count # source.stream_frames

\* C21: when the container-reported and the stream-reported frame counts are
\* both positive and differ, the frame count the Video ends with is the
\* smaller of the two.
C21_MinimumPositiveCount ==
    (mapper_pc = "returned" /\ CountsDisagree) =>
        video.num_frames = Min2(source.frame_count, source.stream_frames)

\* what get_video_properties does on a CFR source: the count MediaInfo
\* reports is taken when positive, the stream's count only otherwise
C21_MediaInfoCountFirst ==
    (mapper_pc = "returned" /\ ~source.is_vfr) =>
        video.num_frames = IF source.frame_count > 0 THEN source.frame_count
                           ELSE source.stream_frames

\* a CFR Video was constructed with the larger of two differing counts
C21_LargerCountTaken ==
    /\ mapper_pc = "returned"
    /\ ~source.is_vfr
    /\ CountsDisagree
    /\ video.num_frames > Min2(source.frame_count, source.stream_frames)

---------------------------------------------------------------------------
(* From the command line to the end of run_ocr: the checks of main, the    *)
(* construction of the Video, run_ocr                                       *)

InitConstruct ==
    /\ pc = "cli"
    /\ \E is_vfr \in BOOLEAN : \E frame_count \in {0, 2} :
            source = Source(is_vfr, <<300>>, frame_count, 0)
    /\ run_args \in [time_start : {<<>>, <<0, 300>>},
                     time_end : {<<>>, <<0, 100>>},
                     frames_to_skip : {0},
                     ssim_threshold : {100},
                     subtitle_position : {"center"},
                     use_fullframe : {FALSE},
                     crop_zones : {<<>>},
                     conf_threshold : {75}, lang : {"en"}]
    /\ \E y \in {80, 120} :
            cli_args = [use_fullframe |-> FALSE, use_dual_zone |-> FALSE,
                        zone1 |-> <<<<0>>, <<y>>, <<100>>, <<40>>>>,
                        zone2 |-> <<<<>>, <<>>, <<>>, <<>>>>]
    /\ ctor_time_end \in {<<>>, run_args.time_end}
    /\ NotConstructed
    /\ NoWindow

NextConstruct ==
    \/ CliCheck
    \/ CliZones
    \/ GetVideoPropertiesBegin
    \/ MapKnownStep
    \/ MapUnknownStep
    \/ ConstructEnd
    \/ NextRun

SpecConstruct == InitConstruct /\ [][NextConstruct]_vars

\* the step raises the error of the time range or of the crop-zone
\* validation
RaisesValidationError ==
    /\ pc \in {"cli", "cli_zones", "run_ocr"}
    /\ pc' = "raised"

\* C18: when the error for a time_start later than time_end or for a crop
\* zone is raised, no frame has been decoded, by the Capture or for the
\* timestamp map, on CFR and on VFR sources.
C18_RaisedBeforeDecoding ==
    [][RaisesValidationError => (decoded = 0 /\ map_decoded = 0)]_vars

\* what the program keeps: the Capture has delivered no frame when either
\* error is raised, and on a CFR source nothing was decoded at all
C18_RaisedBeforeCapture ==
    [][RaisesValidationError =>
            (decoded = 0 /\ (~source.is_vfr => map_decoded = 0))]_vars

\* a crop-zone error was raised on a VFR source after its frames had been
\* decoded for the timestamp map
C18_RaisedAfterMapping ==
    /\ pc = "raised"
    /\ source.is_vfr
    /\ map_decoded = Len(source.pts)
    /\ ocr_end >= ocr_start
    /\ \E k \in DOMAIN run_args.crop_zones : ZoneRaises(run_args.crop_zones[k])

---------------------------------------------------------------------------
(* The frames lists of the Subtitles of two zones, up to the cross-zone    *)
(* merge *)

OrderFrames == 3

\* zone 0 carries any frames; zone 1 carries the same text on every frame of
\* the same range
InitOrder ==
    /\ video = CfrVideo(10)
    /\ args = [sim_threshold |-> 80, max_merge_gap_ms |-> 100,
               min_subtitle_duration_ms |-> 200]
    /\ validated_zones = <<ValidatedZone(CropZone(0, 0, 100, 40)),
                           ValidatedZone(CropZone(0, 80, 100, 40))>>
    /\ \E k1 \in KindSeqs(Kinds({T_AB, T_C}, {90}, {1, 2}), 1, OrderFrames) :
       \E text \in {T_C, <<>>} :
            /\ pred_frames_zone1 = StitchedFrames(k1, 0, 0)
            /\ pred_frames_zone2 =
                  StitchedFrames([k \in 1..SpanSum(k1, Len(k1)) |->
                                    [text |-> text,
                                     confidence |-> IF text = <<>> THEN 100 ELSE 90,
                                     span |-> 1]], 1, 0)
    /\ MergeStart

SpecOrder == InitOrder /\ [][NextDual]_vars

\* the frames of `sub` are of its zone and stand in ascending start_index
FramesOfOneZoneInOrder(sub) ==
    /\ \A i \in DOMAIN sub.frames : sub.frames[i].zone_index = sub.zone_index
    /\ \A i, j \in DOMAIN sub.frames :
            i < j => sub.frames[i].start_index < sub.frames[j].start_index

\* C22: before the cross-zone merge runs, every frame of every Subtitle has
\* the zone_index of the Subtitle, and every frames list is in ascending
\* start_index order, after each step of Pass 1 and Pass 3.
C22_FramesOfOneZoneInOrder ==
    pc \in {"zone_begin", "pass1", "filter", "pass3", "combine"} =>
        /\ \A k \in DOMAIN subs : FramesOfOneZoneInOrder(subs[k])
        /\ \A k \in DOMAIN filtered_subs : FramesOfOneZoneInOrder(filtered_subs[k])
        /\ \A k \in DOMAIN cleaned_subs : FramesOfOneZoneInOrder(cleaned_subs[k])
        /\ \A k \in DOMAIN subs_zone1 :
                FramesOfOneZoneInOrder(subs_zone1[k]) /\ subs_zone1[k].zone_index = 0
        /\ \A k \in DOMAIN subs_zone2 :
                FramesOfOneZoneInOrder(subs_zone2[k]) /\ subs_zone2[k].zone_index = 1

\* both zones have returned Subtitles; one of zone 0 was joined in Pass 3
\* over a dropped Subtitle, one of zone 1 was extended in Pass 1
C22_Witness ==
    /\ pc = "combine"
    /\ \E k \in DOMAIN subs_zone1 : \E i \in DOMAIN subs_zone1[k].frames :
          /\ i > 1
          /\ subs_zone1[k].frames[i].start_index
                > subs_zone1[k].frames[i - 1].end_index + 1
    /\ \E k \in DOMAIN subs_zone2 : Len(subs_zone2[k].frames) >= 2

---------------------------------------------------------------------------
(* Pass 3 over the Subtitles Pass 2 has left *)

RemergeFrames == 5

\* two-frame stretches of text, which last the minimum, and a one-frame
\* stretch, which does not
RemergeKinds ==
    {[text |-> T_AB,  confidence |-> 90, span |-> 2],
     [text |-> T_ABC, confidence |-> 50, span |-> 2],
     [text |-> T_ABC, confidence |-> 90, span |-> 2],
     [text |-> T_C,   confidence |-> 90, span |-> 2],
     [text |-> T_Q,   confidence |-> 90, span |-> 1]}

InitRemerge ==
    /\ video = CfrVideo(10)
    /\ args = [sim_threshold |-> 80, max_merge_gap_ms |-> 100,
               min_subtitle_duration_ms |-> 200]
    /\ validated_zones = OneZone
    /\ \E ks \in KindSeqs(RemergeKinds, 1, RemergeFrames) :
            pred_frames_zone1 = StitchedFrames(ks, 0, 0)
    /\ pred_frames_zone2 = <<>>
    /\ MergeStart

SpecRemerge == InitRemerge /\ [][NextZone]_vars

\* the first call of _process_single_zone has returned; subs is still the
\* list Pass 1 left and subs_zone1 the list returned
ZoneOneReturned == pc = "combine" /\ subs # <<>>

\* Pass 2 dropped every Subtitle between subs[a] and subs[b], at least one,
\* and kept these two
DroppedBetween(a, b) ==
    /\ a + 1 < b
    /\ DurationAtLeastMin(subs[a])
    /\ DurationAtLeastMin(subs[b])
    /\ \A k \in (a + 1)..(b - 1) : ~DurationAtLeastMin(subs[k])

\* the returned Subtitle `result` has all the frames of subs[k]
HoldsFramesOf(result, k) ==
    \A i \in DOMAIN subs[k].frames :
        \E j \in DOMAIN result.frames : result.frames[j] = subs[k].frames[i]

\* subs[a] and subs[b] are in one returned Subtitle, whose text is the one
\* finalize_text gives over its frames
MergedInResult(a, b) ==
    \E r \in DOMAIN subs_zone1 :
        /\ HoldsFramesOf(subs_zone1[r], a)
        /\ HoldsFramesOf(subs_zone1[r], b)
        /\ subs_zone1[r].text = finalize_text(subs_zone1[r]).text

\* Pass 3 has joined subs[a] to a survivor before it
MergedWithEarlier(a) ==
    \E e \in 1..(a - 1) :
        /\ DurationAtLeastMin(subs[e])
        /\ \E r \in DOMAIN subs_zone1 :
                HoldsFramesOf(subs_zone1[r], e) /\ HoldsFramesOf(subs_zone1[r], a)

\* C28 as stated: if Pass 2 drops a Subtitle between two survivors A and B
\* that are gap-mergeable and text-similar, the returned list holds A and B
\* in one Subtitle with re-finalized text.
C28_RemergeOfSurvivors ==
    ZoneOneReturned =>
        \A a, b \in DOMAIN subs :
            (/\ DroppedBetween(a, b)
             /\ is_gap_mergeable(subs[a], subs[b])
             /\ is_similar_to(subs[a], subs[b]))
                => MergedInResult(a, b)

\* C28, amended: the same, for an A that Pass 3 has not joined to a survivor
\* before it, so that B is tested against A itself and not against a joined
\* Subtitle with another text.
C28_RemergeOfUnjoinedSurvivors ==
    ZoneOneReturned =>
        \A a, b \in DOMAIN subs :
            (/\ DroppedBetween(a, b)
             /\ ~MergedWithEarlier(a)
             /\ is_gap_mergeable(subs[a], subs[b])
             /\ is_similar_to(subs[a], subs[b]))
                => MergedInResult(a, b)

\* a Subtitle was dropped between two survivors with different texts, which
\* Pass 3 joined under the text finalize_text gives over both
C28_Witness ==
    /\ ZoneOneReturned
    /\ \E a, b \in DOMAIN subs :
          /\ DroppedBetween(a, b)
          /\ ~MergedWithEarlier(a)
          /\ subs[a].text # subs[b].text
          /\ is_gap_mergeable(subs[a], subs[b])
          /\ is_similar_to(subs[a], subs[b])
          /\ MergedInResult(a, b)
          /\ Len(subs_zone1) < Len(SelectSeq(subs, DurationAtLeastMin))

---------------------------------------------------------------------------
(* The engine's run, its two pipes and their readers *)

MaxLines == 3

\* the two images of the run
ImageNames == {FrameFilename(0, 1, 0), FrameFilename(1, 1, 0)}

StdoutLineKinds ==
    {DelimiterLine(image) : image \in ImageNames}
        \cup {ResultLine([bounding_box |-> Box(10, 10, 30, 20), text |-> T_AB, score |-> 90]), MalformedLine, OtherLine}

InitEngine ==
    /\ pc = "engine"
    /\ video = [is_vfr |-> FALSE, fps |-> 10, frame_timestamps |-> <<>>,
                start_time_offset_ms |-> 0, height |-> 120, width |-> 100,
                num_frames |-> 2, stream_frames |-> 2,
                can_open |-> TRUE, paddleocr_is_file |-> TRUE]
    /\ run_args = [time_start |-> <<>>, time_end |-> <<>>, frames_to_skip |-> 0,
                   ssim_threshold |-> 100, subtitle_position |-> "center",
                   use_fullframe |-> FALSE,
                   crop_zones |-> <<CropZone(0, 80, 100, 40)>>,
                   conf_threshold |-> 75, lang |-> "en"]
    /\ args = [sim_threshold |-> 80, max_merge_gap_ms |-> 0,
               min_subtitle_duration_ms |-> 100]
    /\ os_env = [pid |-> 1, live_pids |-> {1}, base_temp |-> {ScratchDir(1, 0)}]
    /\ temp_dir = {ScratchDir(1, 0)}
    /\ validated_zones = OneZone
    /\ ocr_start = 0
    /\ ocr_end = 2
    /\ decoded = 2
    /\ loop_i = 2
    /\ prev_samples = <<<<>>>>
    /\ frame_paths = <<FrameFilename(0, 1, 0), FrameFilename(1, 1, 0)>>
    /\ ocr_outputs = <<>>
    /\ exit_code = 0
    /\ frame_predictions_by_zone = <<>>
    /\ pred_frames_zone1 = <<>>
    /\ pred_frames_zone2 = <<>>
    /\ MergeLocalsEmpty
    /\ engine_state = "running"
    /\ engine_code = 0
    /\ engine_out \in KindSeqs(StdoutLineKinds, 0, MaxLines)
    /\ engine_err \in KindSeqs({OtherLine}, 0, MaxLines - 1)
    /\ stdout_pipe = <<>>
    /\ stderr_pipe = <<>>
    /\ reader_pc = "read_stdout"
    /\ stderr_thread = "reading"
    /\ stdout_lines = <<>>
    /\ stderr_lines = <<>>
    /\ current_image = <<>>
    /\ AlreadyConstructed
    /\ NoSweep
    /\ NoCommandLine
    /\ ContentOpen
    /\ NoWindow

NextEngine ==
    \/ EngineWriteStdout
    \/ EngineWriteStderr
    \/ EngineExit
    \/ ReadStdoutLine
    \/ ReadStdoutEof
    \/ WaitForExit
    \/ StderrRead
    \/ StderrEof
    \/ JoinStderr
    \/ CheckExitCode

SpecEngine == InitEngine /\ [][NextEngine]_vars

\* the reader is past process.wait()
PastWait == reader_pc \in {"join", "check"} \/ (reader_pc = "none" /\ pc # "engine")

\* C14 as stated: once the exit code has been awaited, the stdout reader has
\* reached end-of-stream and the stderr drain thread has finished.
C14_WaitAfterBothDrained ==
    PastWait =>
        /\ stdout_pipe = <<>>
        /\ engine_state = "exited"
        /\ stderr_thread = "finished"

\* C14, amended: once the exit code has been awaited, the stdout reader has
\* reached end-of-stream; the stderr drain thread has finished and its pipe
\* is empty once the join has returned, which is before the exit code is
\* tested.
C14_WaitAfterStdoutJoinBeforeTest ==
    /\ PastWait => (stdout_pipe = <<>> /\ engine_state = "exited")
    /\ (reader_pc = "check" \/ (reader_pc = "none" /\ pc # "engine")) =>
            (stderr_thread = "finished" /\ stderr_pipe = <<>>)

\* the exit code has been awaited while the drain thread still has a line
\* to read
C14_Witness ==
    /\ reader_pc = "join"
    /\ stderr_thread = "reading"
    /\ stderr_pipe # <<>>
    /\ stdout_lines # <<>>

\* the parse loop over a whole sequence of lines
RECURSIVE ParseAll(_, _, _)
ParseAll(lines, image, outputs) ==
    IF lines = <<>>
    THEN [current_image |-> image, ocr_outputs |-> outputs]
    ELSE ParseAll(Tail(lines),
                  ParseLine(Head(lines), image, outputs).current_image,
                  ParseLine(Head(lines), image, outputs).ocr_outputs)

IsParsable(line) == line.kind # "malformed"

---------------------------------------------------------------------------
(* The engine and its two readers under fair scheduling                     *)

\* the engine ends after it has written all its output
EngineExitAfterOutput ==
    /\ engine_out = <<>>
    /\ engine_err = <<>>
    /\ EngineExit

\* the most lines the engine writes to either stream
PipeLines == 3

\* the engine is started with up to PipeLines lines to write to each stream
InitPipes ==
    /\ pc = "engine"
    /\ video = [is_vfr |-> FALSE, fps |-> 10, frame_timestamps |-> <<>>,
                start_time_offset_ms |-> 0, height |-> 120, width |-> 100,
                num_frames |-> 2, stream_frames |-> 2,
                can_open |-> TRUE, paddleocr_is_file |-> TRUE]
    /\ run_args = [time_start |-> <<>>, time_end |-> <<>>, frames_to_skip |-> 0,
                   ssim_threshold |-> 100, subtitle_position |-> "center",
                   use_fullframe |-> FALSE,
                   crop_zones |-> <<CropZone(0, 80, 100, 40)>>,
                   conf_threshold |-> 75, lang |-> "en"]
    /\ args = [sim_threshold |-> 80, max_merge_gap_ms |-> 0,
               min_subtitle_duration_ms |-> 100]
    /\ os_env = [pid |-> 1, live_pids |-> {1}, base_temp |-> {ScratchDir(1, 0)}]
    /\ temp_dir = {ScratchDir(1, 0)}
    /\ validated_zones = OneZone
    /\ ocr_start = 0
    /\ ocr_end = 2
    /\ decoded = 2
    /\ loop_i = 2
    /\ prev_samples = <<<<>>>>
    /\ frame_paths = <<FrameFilename(0, 1, 0), FrameFilename(1, 1, 0)>>
    /\ ocr_outputs = <<>>
    /\ exit_code = 0
    /\ frame_predictions_by_zone = <<>>
    /\ pred_frames_zone1 = <<>>
    /\ pred_frames_zone2 = <<>>
    /\ MergeLocalsEmpty
    /\ engine_state = "running"
    /\ engine_code = 0
    /\ engine_out \in KindSeqs({DelimiterLine(FrameFilename(0, 1, 0)), OtherLine}, 0, PipeLines)
    /\ engine_err \in KindSeqs({OtherLine}, 0, PipeLines)
    /\ stdout_pipe = <<>>
    /\ stderr_pipe = <<>>
    /\ reader_pc = "read_stdout"
    /\ stderr_thread = "reading"
    /\ stdout_lines = <<>>
    /\ stderr_lines = <<>>
    /\ current_image = <<>>
    /\ AlreadyConstructed
    /\ NoSweep
    /\ NoCommandLine
    /\ ContentOpen
    /\ NoWindow

\* the engine goes on whenever it is not blocked on a full pipe, and the
\* main thread and stderr_thread are scheduled whenever they can run; an
\* engine that ends before it has written everything is possible but not
\* required
SpecEngineFair ==
    /\ InitPipes
    /\ [][NextEngine]_vars
    /\ WF_vars(EngineWriteStdout)
    /\ WF_vars(EngineWriteStderr)
    /\ WF_vars(EngineExitAfterOutput)
    /\ WF_vars(ReadStdoutLine)
    /\ WF_vars(ReadStdoutEof)
    /\ WF_vars(WaitForExit)
    /\ WF_vars(StderrRead)
    /\ WF_vars(StderrEof)
    /\ WF_vars(JoinStderr)
    /\ WF_vars(CheckExitCode)

\* the engine cannot write its next stderr line because the pipe is full
\* while the main thread waits for a line on an empty stdout pipe
EngineBlockedOnStderr ==
    /\ engine_state = "running"
    /\ engine_err # <<>>
    /\ Len(stderr_pipe) = PipeCapacity
    /\ reader_pc = "read_stdout"
    /\ stdout_pipe = <<>>

\* C27: whatever the order of the engine's writes to stdout and stderr and
\* with pipes that hold PipeCapacity lines, run_ocr eventually reaches the
\* test of the exit code, and an engine blocked on a full stderr pipe while
\* the main thread waits on stdout does not stay blocked.
C27_NoTwoPipeDeadlock ==
    /\ <>(reader_pc = "check")
    /\ EngineBlockedOnStderr ~> ~EngineBlockedOnStderr

\* the exit-code test is reached with exit code 0 after more stderr lines
\* than the pipe holds and all stdout lines went through the pipes
C27_Witness ==
    /\ reader_pc = "check"
    /\ exit_code = 0
    /\ Len(stderr_lines) > PipeCapacity
    /\ Len(stdout_lines) > PipeCapacity

---------------------------------------------------------------------------
(* The parse loop on a right-to-left language *)

RtlWords == 3

\* words of Arabic letters (alef 1575, beh 1576, teh 1578), with and without
\* trailing punctuation, Latin words, a lone "!", and a Latin letter
\* followed by the Arabic question mark (1567)
RtlTokens ==
    {<<1575, 1576>>, <<1575, 1576, 33>>, <<1578>>, <<1578, 46, 33>>,
     <<65, 66>>, <<67, 33>>, <<33>>, <<65, 1567>>}

IsResultLine(line) == line.kind = "result"

InitRtl ==
    /\ pc = "engine"
    /\ video = [is_vfr |-> FALSE, fps |-> 10, frame_timestamps |-> <<>>,
                start_time_offset_ms |-> 0, height |-> 120, width |-> 100,
                num_frames |-> 1, stream_frames |-> 1,
                can_open |-> TRUE, paddleocr_is_file |-> TRUE]
    /\ \E lang \in {"ar", "en"} :
            run_args = [time_start |-> <<>>, time_end |-> <<>>, frames_to_skip |-> 0,
                        ssim_threshold |-> 100, subtitle_position |-> "center",
                        use_fullframe |-> FALSE,
                        crop_zones |-> <<CropZone(0, 80, 100, 40)>>,
                        conf_threshold |-> 75, lang |-> lang]
    /\ args = [sim_threshold |-> 80, max_merge_gap_ms |-> 0,
               min_subtitle_duration_ms |-> 100]
    /\ os_env = [pid |-> 1, live_pids |-> {1}, base_temp |-> {ScratchDir(1, 0)}]
    /\ temp_dir = {ScratchDir(1, 0)}
    /\ validated_zones = OneZone
    /\ ocr_start = 0
    /\ ocr_end = 1
    /\ decoded = 1
    /\ loop_i = 1
    /\ prev_samples = <<<<>>>>
    /\ frame_paths = <<FrameFilename(0, 1, 0)>>
    /\ ocr_outputs = <<>>
    /\ exit_code = 0
    /\ frame_predictions_by_zone = <<>>
    /\ pred_frames_zone1 = <<>>
    /\ pred_frames_zone2 = <<>>
    /\ MergeLocalsEmpty
    /\ engine_state = "running"
    /\ engine_code = 0
    /\ \E words \in KindSeqs(RtlTokens, 1, RtlWords) :
       \E padded \in BOOLEAN :
            engine_out =
                <<DelimiterLine(FrameFilename(0, 1, 0)),
                  ResultLine([bounding_box |-> Box(10, 10, 30, 20),
                              text  |-> IF padded
                                        THEN <<SP>> \o JoinWords(words) \o <<SP>>
                                        ELSE JoinWords(words),
                              score |-> 90])>>
    /\ engine_err = <<>>
    /\ stdout_pipe = <<>>
    /\ stderr_pipe = <<>>
    /\ reader_pc = "read_stdout"
    /\ stderr_thread = "reading"
    /\ stdout_lines = <<>>
    /\ stderr_lines = <<>>
    /\ current_image = <<>>
    /\ AlreadyConstructed
    /\ NoSweep
    /\ NoCommandLine
    /\ ContentOpen
    /\ NoWindow

NextRtl ==
    \/ EngineWriteStdout
    \/ EngineExit
    \/ ReadStdoutLine
    \/ ReadStdoutEof
    \/ WaitForExit
    \/ StderrEof
    \/ JoinStderr
    \/ CheckExitCode

SpecRtl == InitRtl /\ [][NextRtl]_vars

\* `fixed` is `w` with its characters before the trailing punctuation in
\* reverse and the trailing punctuation where it was
IsCoreReversed(w, fixed) ==
    \E n \in 0..Len(w) :
        /\ \A i \in (Len(w) - n + 1)..Len(w) : IsTrailingPunct(w[i])
        /\ n < Len(w) => ~IsTrailingPunct(w[Len(w) - n])
        /\ Len(fixed) = Len(w)
        /\ \A i \in 1..(Len(w) - n) : fixed[i] = w[Len(w) - n + 1 - i]
        /\ \A i \in (Len(w) - n + 1)..Len(w) : fixed[i] = w[i]

\* first and last position of the maximal run of right-to-left words around
\* position i
RunFirst(words, i) ==
    CHOOSE a \in 1..i :
        /\ \A k \in a..i : HasArabicChar(words[k])
        /\ a > 1 => ~HasArabicChar(words[a - 1])

RunLast(words, i) ==
    CHOOSE b \in i..Len(words) :
        /\ \A k \in i..b : HasArabicChar(words[k])
        /\ b < Len(words) => ~HasArabicChar(words[b + 1])

\* `fixed` is what the claim says of `raw`
IsLogicalOrder(raw, fixed) ==
    LET words == SplitWords(raw, <<>>, <<>>)
        out   == SplitWords(fixed, <<>>, <<>>)
    IN  /\ Len(out) = Len(words)
        /\ fixed = JoinWords(out)
        /\ \A i \in DOMAIN words :
              IF HasArabicChar(words[i])
              THEN IsCoreReversed(words[RunFirst(words, i) + RunLast(words, i) - i],
                                  out[i])
              ELSE out[i] = words[i]

\* the text of the result line read
RawText == SelectSeq(stdout_lines, IsResultLine)[1].data[1].text

\* C23: for a right-to-left language every detection is stored with its
\* text corrected: each right-to-left word has its characters before the
\* trailing punctuation reversed and the punctuation kept at the tail, the
\* words of each maximal run of right-to-left words stand in reverse order,
\* and every left-to-right word is unchanged and where it was.
C23_VisualToLogical ==
    \A image \in DOMAIN ocr_outputs : \A k \in DOMAIN ocr_outputs[image] :
        IF run_args.lang \in ARABIC_LANGS
        THEN IsLogicalOrder(RawText, ocr_outputs[image][k].text)
        ELSE ocr_outputs[image][k].text = RawText

\* a detection was stored for a text with a run of two right-to-left words,
\* one of them with trailing punctuation, beside a left-to-right word
C23_Witness ==
    /\ run_args.lang = "ar"
    /\ \E image \in DOMAIN ocr_outputs :
          /\ ocr_outputs[image] # <<>>
          /\ ocr_outputs[image][1].text # RawText
    /\ LET words == SplitWords(RawText, <<>>, <<>>)
       IN  /\ Len(words) = 3
           /\ HasArabicChar(words[1])
           /\ TrailingPunctLen(words[1]) > 0
           /\ HasArabicChar(words[2])
           /\ words[1] # words[2]
           /\ ~HasArabicChar(words[3])

---------------------------------------------------------------------------
(* The command line: the checks of main before save_subtitles_to_file      *)

\* the four coordinates of one zone, each given or not; 0 is a coordinate
ZoneVars ==
    {<<x, y, w, h>> : x \in {<<>>, <<0>>}, y \in {<<>>, <<80>>},
                      w \in {<<>>, <<100>>}, h \in {<<>>, <<40>>}}

InitCli ==
    /\ pc = "cli"
    /\ source = Source(FALSE, <<300>>, 2, 0)
    /\ cli_args \in [use_fullframe : BOOLEAN, use_dual_zone : BOOLEAN,
                     zone1 : ZoneVars, zone2 : ZoneVars]
    /\ run_args \in [time_start : {<<>>, <<0, 300>>},
                     time_end : {<<>>, <<0, 100>>},
                     frames_to_skip : {0},
                     ssim_threshold : {100},
                     subtitle_position : {"center"},
                     use_fullframe : {cli_args.use_fullframe},
                     crop_zones : {<<>>},
                     conf_threshold : {75}, lang : {"en"}]
    /\ ctor_time_end = run_args.time_end
    /\ NotConstructed
    /\ NoWindow

NextCli ==
    \/ CliCheck
    \/ CliZones

SpecCli == InitCli /\ [][NextCli]_vars

\* some, not all, of the four coordinates of the zone were given
IsPartialZone(zone_vars) == ~is_zone_full(zone_vars) /\ ~is_zone_empty(zone_vars)

\* main has called save_subtitles_to_file
SaveSubtitlesCalled == pc = "construct"

\* at most two zones, and two only on a dual-zone request
AtMostTwoZones ==
    /\ Len(run_args.crop_zones) <= 2
    /\ Len(run_args.crop_zones) = 2 => cli_args.use_dual_zone

\* C24: the command line hands at most two crop zones to a run and a second
\* one only when dual-zone is requested; a zone given with only some of its
\* four coordinates, and a dual-zone request with a complete first zone but
\* no second zone, never reach save_subtitles_to_file.
C24_PartialZonesRejected ==
    SaveSubtitlesCalled =>
        /\ AtMostTwoZones
        /\ ~IsPartialZone(cli_args.zone1)
        /\ ~IsPartialZone(cli_args.zone2)
        /\ ~(/\ cli_args.use_dual_zone
             /\ is_zone_full(cli_args.zone1)
             /\ is_zone_empty(cli_args.zone2))

\* C24, as the program keeps it: at most two zones, two only on a dual-zone
\* request; without use_fullframe a partly given zone 1 never reaches
\* save_subtitles_to_file, and on a dual-zone request without use_fullframe
\* neither does a partly given zone 2 nor a complete zone 1 without a
\* zone 2. With use_fullframe the coordinates are not looked at and no zone
\* is handed on, and without a dual-zone request the coordinates of zone 2
\* are not looked at.
C24_PartialZonesRejectedWhenUsed ==
    SaveSubtitlesCalled =>
        /\ AtMostTwoZones
        /\ cli_args.use_fullframe => run_args.crop_zones = <<>>
        /\ ~cli_args.use_fullframe =>
              /\ ~IsPartialZone(cli_args.zone1)
              /\ cli_args.use_dual_zone =>
                    /\ ~IsPartialZone(cli_args.zone2)
                    /\ ~(is_zone_full(cli_args.zone1) /\ is_zone_empty(cli_args.zone2))
              /\ ~cli_args.use_dual_zone => Len(run_args.crop_zones) <= 1

\* the time range was accepted and a dual-zone request with a complete
\* zone 1 and a partly given zone 2 was rejected
C24_Witness ==
    /\ pc = "raised"
    /\ ~(/\ run_args.time_start # <<>>
         /\ run_args.time_end # <<>>)
    /\ ~cli_args.use_fullframe
    /\ cli_args.use_dual_zone
    /\ is_zone_full(cli_args.zone1)
    /\ IsPartialZone(cli_args.zone2)

\* two zones were handed to save_subtitles_to_file
C24_TwoZonesHandedOn ==
    /\ SaveSubtitlesCalled
    /\ Len(run_args.crop_zones) = 2

---------------------------------------------------------------------------
(* The sampling loop on frames whose strips are known                       *)

DedupFrames == 3

\* what a strip can show; ssim gives 100, 95 and 80 on them
Strips == 0..2

InitDedup ==
    /\ pc = "run_ocr"
    /\ video = [is_vfr |-> FALSE, fps |-> 10, frame_timestamps |-> <<>>,
                start_time_offset_ms |-> 0, height |-> 120, width |-> 100,
                num_frames |-> DedupFrames, stream_frames |-> DedupFrames,
                can_open |-> TRUE, paddleocr_is_file |-> TRUE]
    /\ run_args \in [time_start : {<<>>, <<0, 100>>},
                     time_end : {<<>>},
                     frames_to_skip : {0, 1},
                     ssim_threshold : {92, 100},
                     subtitle_position : {"center"},
                     use_fullframe : {FALSE},
                     crop_zones : {<<CropZone(0, 80, 100, 40)>>,
                                   <<CropZone(0, 0, 100, 40), CropZone(0, 80, 100, 40)>>},
                     conf_threshold : {75}, lang : {"en"}]
    /\ pixels \in [1..DedupFrames -> [1..Len(run_args.crop_zones) -> Strips]]
    /\ args = [sim_threshold |-> 80, max_merge_gap_ms |-> 0,
               min_subtitle_duration_ms |-> 100]
    /\ os_env = [pid |-> 1, live_pids |-> {1}, base_temp |-> {}]
    /\ validated_zones = <<>>
    /\ pred_frames_zone1 = <<>>
    /\ pred_frames_zone2 = <<>>
    /\ MergeLocalsEmpty
    /\ ocr_start = 0
    /\ ocr_end = 0
    /\ temp_dir = {}
    /\ decoded = 0
    /\ loop_i = 0
    /\ prev_samples = <<>>
    /\ frame_paths = <<>>
    /\ ocr_outputs = <<>>
    /\ exit_code = 0
    /\ frame_predictions_by_zone = <<>>
    /\ NoEngine
    /\ AlreadyConstructed
    /\ NoSweep
    /\ NoCommandLine
    /\ NoWindow

NextDedup ==
    \/ RunBegin
    \/ MakeTempDir
    \/ CaptureOpen
    \/ SampleStep
    \/ StartEngine

SpecDedup == InitDedup /\ [][NextDedup]_vars

\* the step is an iteration of the sampling loop that read a frame and took
\* its zones through the comparison
ReadsSampledFrame ==
    /\ pc = "sample"
    /\ pc' = "sample"
    /\ loop_i' = loop_i + 1
    /\ loop_i % (run_args.frames_to_skip + 1) = 0
    /\ decoded' = decoded + 1

\* the image of zone z of the frame read by the step is stored
StoredByStep(z) ==
    \E k \in (DOMAIN frame_paths') \ (DOMAIN frame_paths) :
        frame_paths'[k] = FrameFilename(loop_i + ocr_start,
                                         Len(Digits(ocr_end - ocr_start)), z)

\* the frame read by the step is not the first sampled frame of the run
HasPrecedingSample == loop_i >= run_args.frames_to_skip + 1

\* the frame index of the sampled frame before the one the step reads
PrecedingSample == ocr_start + loop_i - (run_args.frames_to_skip + 1)

\* C25: with deduplication enabled the image of a zone of a sampled frame
\* is skipped exactly when the similarity of its strip to the strip of the
\* same zone in the immediately preceding sampled frame, whether that one
\* was kept or skipped, exceeds the threshold; the other zone's strips
\* play no part, and the first sampled frame of each zone is stored.
C25_SlidingComparison ==
    [][ReadsSampledFrame =>
         \A z \in 0..(Len(validated_zones) - 1) :
            StoredByStep(z) <=>
                ~(/\ DedupEnabled
                  /\ HasPrecedingSample
                  /\ ssim(Strip(PrecedingSample, z), Strip(ocr_start + loop_i, z))
                        > run_args.ssim_threshold)]_vars

\* three sampled frames of zone 0: the second was skipped, the third was
\* skipped against the second although it is not similar to the first,
\* the last one kept
C25_Witness ==
    /\ pc = "sample"
    /\ loop_i = 3
    /\ ocr_start = 0
    /\ run_args.frames_to_skip = 0
    /\ DedupEnabled
    /\ ssim(Strip(0, 0), Strip(2, 0)) <= run_args.ssim_threshold
    /\ \A k \in DOMAIN frame_paths :
          frame_paths[k].zone = 0 => frame_paths[k] = FrameFilename(0, 1, 0)

---------------------------------------------------------------------------
(* The decoder position during sampling (SpecRun)                           *)

\* the step is one iteration of the sampling loop
SamplingIteration ==
    /\ pc = "sample"
    /\ loop_i' = loop_i + 1

\* the step is the opening of the Capture with the advance to ocr_start
AdvanceToStart ==
    /\ pc = "open"
    /\ pc' = "sample"

\* the images the step stores
StoredNow == {frame_paths'[k] : k \in (DOMAIN frame_paths') \ (DOMAIN frame_paths)}

\* the step stores images, all under the frame number at the decoder's
\* position, which is ocr_start + i
StoresFrameAtPosition ==
    StoredNow # {} =>
        /\ decoded = ocr_start + loop_i
        /\ decoded' = decoded + 1
        /\ \A f \in StoredNow : ParseInt(f.digits) = decoded

\* C26: the advance consumes exactly ocr_start frames, every index of the
\* OCR range then consumes exactly one frame, sampled or not, and an image
\* is stored under the number of the decoded frame it was taken from.
C26_OneFramePerIndex ==
    [][/\ AdvanceToStart => decoded' = ocr_start
       /\ SamplingIteration => decoded' = decoded + 1
       /\ StoresFrameAtPosition]_vars

\* C26, as the program keeps it: while the stream has frames left the
\* advance and every index of the OCR range consume exactly one frame
\* each, sampled or not; once the stream has ended they consume nothing and
\* nothing more is stored; an image is stored under the number of the
\* decoded frame it was taken from, ocr_start + i.
C26_OneFramePerIndexUntilStreamEnd ==
    [][/\ AdvanceToStart => decoded' = Min2(ocr_start, video.stream_frames)
       /\ SamplingIteration =>
            IF decoded < video.stream_frames
            THEN decoded' = decoded + 1
            ELSE decoded' = decoded /\ frame_paths' = frame_paths
       /\ StoresFrameAtPosition]_vars

\* with a stride of 2, frame 1 was grabbed and frame 2 stored after it
C26_Witness ==
    /\ pc = "sample"
    /\ ocr_start = 0
    /\ run_args.frames_to_skip = 1
    /\ loop_i = 3
    /\ decoded = 3
    /\ \E k \in DOMAIN frame_paths : ParseInt(frame_paths[k].digits) = 2

\* an index of the OCR range was passed after the stream had ended
C26_IndexPastStreamEnd ==
    /\ pc = "sample"
    /\ loop_i > 0
    /\ decoded < ocr_start + loop_i

---------------------------------------------------------------------------
(* The mapping of one image whose detections have bounding boxes            *)

LineWords == 3

\* a box whose first corner is not its leftmost one: the word is slanted
SlantedBox(y_min, y_max) == <<<<24, y_min>>, <<44, y_min>>, <<38, y_max>>, <<18, y_max>>>>

\* three vertical spans: 10..20 and 5..9 are not on the same line, 2..16 is
\* on the same line as either
WordBoxes ==
    {Box(0, 10, 20, 20), Box(20, 10, 40, 20), SlantedBox(10, 20),
     Box(0, 5, 20, 9), Box(20, 2, 40, 16)}

\* the k-th detection of the image reads as the k-th letter
Detections(n) ==
    {ds \in [1..n -> [bounding_box : WordBoxes, text : {<<65>>, <<66>>, <<67>>, <<68>>},
                      score : {50, 90}]] :
        \A k \in 1..n : ds[k].text = <<64 + k>>}

InitLines ==
    /\ pc = "map"
    /\ video = [is_vfr |-> FALSE, fps |-> 10, frame_timestamps |-> <<>>,
                start_time_offset_ms |-> 0, height |-> 120, width |-> 100,
                num_frames |-> 1, stream_frames |-> 1,
                can_open |-> TRUE, paddleocr_is_file |-> TRUE]
    /\ run_args = [time_start |-> <<>>, time_end |-> <<>>, frames_to_skip |-> 0,
                   ssim_threshold |-> 100, subtitle_position |-> "center",
                   use_fullframe |-> FALSE,
                   crop_zones |-> <<CropZone(0, 80, 100, 40)>>,
                   conf_threshold |-> 75, lang |-> "en"]
    /\ args = [sim_threshold |-> 80, max_merge_gap_ms |-> 0,
               min_subtitle_duration_ms |-> 100]
    /\ os_env = [pid |-> 1, live_pids |-> {1}, base_temp |-> {ScratchDir(1, 0)}]
    /\ temp_dir = {ScratchDir(1, 0)}
    /\ validated_zones = OneZone
    /\ ocr_start = 0
    /\ ocr_end = 1
    /\ decoded = 1
    /\ loop_i = 1
    /\ prev_samples = <<<<>>>>
    /\ frame_paths = <<FrameFilename(0, 1, 0)>>
    /\ \E n \in 1..LineWords : \E ds \in Detections(n) :
            ocr_outputs = [image \in {FrameFilename(0, 1, 0)} |-> ds]
    /\ exit_code = 0
    /\ frame_predictions_by_zone = <<>>
    /\ pred_frames_zone1 = <<>>
    /\ pred_frames_zone2 = <<>>
    /\ MergeLocalsEmpty
    /\ NoEngine
    /\ AlreadyConstructed
    /\ NoSweep
    /\ NoCommandLine
    /\ ContentOpen
    /\ NoWindow

NextLines ==
    \/ MapFrames
    \/ Stitch

SpecLines == InitLines /\ [][NextLines]_vars

\* the frame of the image has been built
FrameBuilt == pc \in {"stitch", "ocr_done"}

\* the PredictedFrames of the image
TheFrame == frame_predictions_by_zone[1][1]

\* the kept words of the image in detection order
TheWords ==
    LET ds == ocr_outputs[FrameFilename(0, 1, 0)]
    IN  SelectSeq([k \in DOMAIN ds |->
                        [bounding_box |-> ds[k].bounding_box,
                         confidence   |-> ds[k].score,
                         text         |-> ds[k].text]],
                  LAMBDA w : w.confidence >= run_args.conf_threshold)

\* the places of the frame's lines that hold the k-th kept word
PlacesOf(k) ==
    {<<l, j>> \in (DOMAIN TheFrame.lines) \X (1..LineWords + 1) :
        j \in DOMAIN TheFrame.lines[l] /\ TheFrame.lines[l][j] = TheWords[k]}

\* the line that holds the k-th kept word
LineHolding(k) == CHOOSE l \in DOMAIN TheFrame.lines : \E p \in PlacesOf(k) : p[1] = l

\* the first word, in detection order, of the line that holds the k-th word
OpenerOf(k) ==
    CHOOSE j \in DOMAIN TheWords :
        /\ LineHolding(j) = LineHolding(k)
        /\ \A i \in DOMAIN TheWords : LineHolding(i) = LineHolding(k) => j <= i

\* the words detected before the k-th that opened a line and pass the
\* vertical-overlap test with the k-th
FittingOpeners(k) ==
    {j \in 1..(k - 1) : OpenerOf(j) = j /\ is_on_same_line(TheWords[k], TheWords[j])}

\* C29: every kept word is in exactly one line of the frame; a word joins
\* the line opened earliest among the lines whose opening word passes the
\* vertical-overlap test with it, and opens a line if there is none.
C29_GreedyFirstFit ==
    (FrameBuilt /\ TheWords # <<>>) =>
        /\ \A k \in DOMAIN TheWords : Cardinality(PlacesOf(k)) = 1
        /\ Len(Flatten(TheFrame.lines)) = Len(TheWords)
        /\ \A k \in DOMAIN TheWords :
              IF FittingOpeners(k) = {}
              THEN OpenerOf(k) = k
              ELSE /\ OpenerOf(k) \in FittingOpeners(k)
                   /\ \A j \in FittingOpeners(k) : OpenerOf(k) <= j

\* the third word passes the test with the openers of two lines and is in
\* the line of the first one
C29_Witness ==
    /\ FrameBuilt
    /\ Len(TheWords) = 3
    /\ FittingOpeners(3) = {1, 2}
    /\ OpenerOf(3) = 1

\* the least y and the least x over the corners of the words
MinYOver(words) ==
    CHOOSE y \in {MinY(words[k].bounding_box) : k \in DOMAIN words} :
        \A k \in DOMAIN words : y <= MinY(words[k].bounding_box)

MinX(bounding_box) ==
    CHOOSE x \in {bounding_box[k][1] : k \in DOMAIN bounding_box} :
        \A k \in DOMAIN bounding_box : x <= bounding_box[k][1]

\* the text of the frame is its words joined by a space within a line and
\* its lines joined by a newline, in the order of the frame's lines
TextJoinsLines ==
    TheFrame.text =
        JoinTexts([l \in DOMAIN TheFrame.lines |->
                     JoinTexts([j \in DOMAIN TheFrame.lines[l] |-> TheFrame.lines[l][j].text],
                               <<SP>>)],
                  <<NL>>)

\* C30: the lines of a frame are in ascending order of the least y over the
\* words of the line, the words of a line in ascending order of their least
\* x, and the text joins words with a space and lines with a newline in
\* that order.
C30_LinesTopDownWordsLeftRight ==
    (FrameBuilt /\ TheWords # <<>>) =>
        /\ \A l1, l2 \in DOMAIN TheFrame.lines :
              l1 < l2 => MinYOver(TheFrame.lines[l1]) <= MinYOver(TheFrame.lines[l2])
        /\ \A l \in DOMAIN TheFrame.lines : \A j1, j2 \in DOMAIN TheFrame.lines[l] :
              j1 < j2 => MinX(TheFrame.lines[l][j1].bounding_box)
                            <= MinX(TheFrame.lines[l][j2].bounding_box)
        /\ TextJoinsLines

\* what the program keeps: the lines are in ascending order of the least y
\* of the word that opened the line, the words of a line in ascending order
\* of the x of their first corner, and the text is joined in that order
C30_OrderedByOpenerAndFirstCorner ==
    (FrameBuilt /\ TheWords # <<>>) =>
        /\ \A k1, k2 \in DOMAIN TheWords :
              LineHolding(k1) < LineHolding(k2) =>
                    MinY(TheWords[OpenerOf(k1)].bounding_box)
                        <= MinY(TheWords[OpenerOf(k2)].bounding_box)
        /\ \A l \in DOMAIN TheFrame.lines : \A j1, j2 \in DOMAIN TheFrame.lines[l] :
              j1 < j2 => TheFrame.lines[l][j1].bounding_box[1][1]
                            <= TheFrame.lines[l][j2].bounding_box[1][1]
        /\ TextJoinsLines

\* a line that reaches higher than the line placed before it
C30_HigherLineSecond ==
    /\ FrameBuilt
    /\ TheWords # <<>>
    /\ \E l \in DOMAIN TheFrame.lines :
          /\ l > 1
          /\ MinYOver(TheFrame.lines[l]) < MinYOver(TheFrame.lines[l - 1])

---------------------------------------------------------------------------
(* From the engine's stdout to the PredictedFrames of the two images        *)

ParseLines == 3

\* a word above and a word below the confidence threshold of the run
GoodWord == [bounding_box |-> Box(10, 10, 30, 20), text |-> T_AB, score |-> 90]

WeakWord == [bounding_box |-> Box(10, 10, 30, 20), text |-> T_C, score |-> 50]

ParseLineKinds ==
    {DelimiterLine(image) : image \in ImageNames}
        \cup {ResultLine(GoodWord), ResultLine(WeakWord), MalformedLine, OtherLine}

InitParse ==
    /\ pc = "engine"
    /\ video = [is_vfr |-> FALSE, fps |-> 10, frame_timestamps |-> <<>>,
                start_time_offset_ms |-> 0, height |-> 120, width |-> 100,
                num_frames |-> 2, stream_frames |-> 2,
                can_open |-> TRUE, paddleocr_is_file |-> TRUE]
    /\ run_args = [time_start |-> <<>>, time_end |-> <<>>, frames_to_skip |-> 0,
                   ssim_threshold |-> 100, subtitle_position |-> "center",
                   use_fullframe |-> FALSE,
                   crop_zones |-> <<CropZone(0, 80, 100, 40)>>,
                   conf_threshold |-> 75, lang |-> "en"]
    /\ args = [sim_threshold |-> 80, max_merge_gap_ms |-> 0,
               min_subtitle_duration_ms |-> 100]
    /\ os_env = [pid |-> 1, live_pids |-> {1}, base_temp |-> {ScratchDir(1, 0)}]
    /\ temp_dir = {ScratchDir(1, 0)}
    /\ validated_zones = OneZone
    /\ ocr_start = 0
    /\ ocr_end = 2
    /\ decoded = 2
    /\ loop_i = 2
    /\ prev_samples = <<<<>>>>
    /\ frame_paths = <<FrameFilename(0, 1, 0), FrameFilename(1, 1, 0)>>
    /\ ocr_outputs = <<>>
    /\ exit_code = 0
    /\ frame_predictions_by_zone = <<>>
    /\ pred_frames_zone1 = <<>>
    /\ pred_frames_zone2 = <<>>
    /\ MergeLocalsEmpty
    /\ engine_state = "running"
    /\ engine_code = 0
    /\ engine_out \in KindSeqs(ParseLineKinds, 0, ParseLines)
    /\ engine_err = <<>>
    /\ stdout_pipe = <<>>
    /\ stderr_pipe = <<>>
    /\ reader_pc = "read_stdout"
    /\ stderr_thread = "reading"
    /\ stdout_lines = <<>>
    /\ stderr_lines = <<>>
    /\ current_image = <<>>
    /\ AlreadyConstructed
    /\ NoSweep
    /\ NoCommandLine
    /\ ContentOpen
    /\ NoWindow

NextParse ==
    \/ EngineWriteStdout
    \/ EngineExit
    \/ ReadStdoutLine
    \/ ReadStdoutEof
    \/ WaitForExit
    \/ StderrEof
    \/ JoinStderr
    \/ CheckExitCode
    \/ MapFrames

SpecParse == InitParse /\ [][NextParse]_vars

\* the position of the last delimiter line before position k of the lines
\* read, 0 if there is none
DelimiterBefore(k) ==
    IF \E j \in 1..(k - 1) : stdout_lines[j].kind = "delimiter"
    THEN CHOOSE j \in 1..(k - 1) :
            /\ stdout_lines[j].kind = "delimiter"
            /\ \A i \in (j + 1)..(k - 1) : stdout_lines[i].kind # "delimiter"
    ELSE 0

\* the image a line at position k belongs to, <<>> before the first delimiter
ImageAt(k) ==
    IF DelimiterBefore(k) = 0 THEN <<>> ELSE <<stdout_lines[DelimiterBefore(k)].image>>

\* a delimiter line has named the image
Named(image) ==
    \E k \in DOMAIN stdout_lines :
        stdout_lines[k].kind = "delimiter" /\ stdout_lines[k].image = image

\* the lines of the given kind the engine printed for the image
LinesFor(image, kind) ==
    {k \in DOMAIN stdout_lines : stdout_lines[k].kind = kind /\ ImageAt(k) = <<image>>}

\* the engine named the image and printed neither a result nor an unreadable
\* result for it
EmptyButValid(image) ==
    /\ Named(image)
    /\ LinesFor(image, "result") = {}
    /\ LinesFor(image, "malformed") = {}

\* the frames of the mapping are built
FramesMappedFromOutput == pc = "stitch"

\* the image a frame of zone 0 was built from
ImageOf(frame) == FrameFilename(frame.start_index, 1, 0)

\* C32: a frame without a kept word has an empty text, and its confidence
\* is 100 exactly when the engine returned an empty but valid result for
\* its image and 0 in every other case.
C32_ConfidenceSentinel ==
    FramesMappedFromOutput =>
        \A k \in DOMAIN frame_predictions_by_zone[1] :
            LET frame == frame_predictions_by_zone[1][k]
            IN  frame.lines = <<>> =>
                    /\ frame.text = <<>>
                    /\ frame.confidence =
                          IF EmptyButValid(ImageOf(frame)) THEN 100 ELSE 0

\* what the program keeps: a frame without a kept word has an empty text,
\* and its confidence is 100 exactly when no detection was collected for
\* its image, whether the engine named the image or not, and 0 when
\* detections were collected and none passed the threshold
C32_SentinelByCollectedDetections ==
    FramesMappedFromOutput =>
        \A k \in DOMAIN frame_predictions_by_zone[1] :
            LET frame == frame_predictions_by_zone[1][k]
                image == ImageOf(frame)
            IN  frame.lines = <<>> =>
                    /\ frame.text = <<>>
                    /\ frame.confidence =
                          IF image \notin DOMAIN ocr_outputs \/ ocr_outputs[image] = <<>>
                          THEN 100 ELSE 0

\* a frame of confidence 100 whose image the engine never named
C32_UnnamedImageFullyConfident ==
    /\ FramesMappedFromOutput
    /\ \E k \in DOMAIN frame_predictions_by_zone[1] :
          /\ frame_predictions_by_zone[1][k].confidence = 100
          /\ ~Named(ImageOf(frame_predictions_by_zone[1][k]))

\* a frame of confidence 100 for whose image the engine printed only a
\* result that could not be read
C32_UnreadableResultFullyConfident ==
    /\ FramesMappedFromOutput
    /\ \E k \in DOMAIN frame_predictions_by_zone[1] :
          LET image == ImageOf(frame_predictions_by_zone[1][k])
          IN  /\ frame_predictions_by_zone[1][k].confidence = 100
              /\ Named(image)
              /\ LinesFor(image, "malformed") # {}

\* a frame of confidence 0 whose detections are all under the threshold
C32_WeakWordsNoConfidence ==
    /\ FramesMappedFromOutput
    /\ \E k \in DOMAIN frame_predictions_by_zone[1] :
          /\ frame_predictions_by_zone[1][k].confidence = 0
          /\ frame_predictions_by_zone[1][k].lines = <<>>

\* the loop over stdout has read one more line
LineRead == Len(stdout_lines') = Len(stdout_lines) + 1

\* what reading one line does to the detection lists, with the owner of
\* the line taken from the lines read before it
AttributedStep ==
    LET k == Len(stdout_lines) + 1
        line == stdout_lines'[k]
        owner == ImageAt(k)
    IN  /\ (line.kind = "result" /\ owner # <<>>) =>
              /\ owner[1] \in DOMAIN ocr_outputs
              /\ ocr_outputs' =
                    Put(ocr_outputs, owner[1],
                        ocr_outputs[owner[1]] \o CorrectedData(line.data))
        /\ (line.kind = "result" /\ owner = <<>>) => ocr_outputs' = ocr_outputs
        /\ (line.kind \in {"other", "malformed"}) =>
              /\ ocr_outputs' = ocr_outputs
              /\ current_image' = current_image
        /\ (line.kind = "delimiter") =>
              /\ line.image \in DOMAIN ocr_outputs'
              /\ \A image \in DOMAIN ocr_outputs' \ {line.image} :
                    /\ image \in DOMAIN ocr_outputs
                    /\ ocr_outputs'[image] = ocr_outputs[image]

\* the mapping builds the frame of an image no delimiter named from an empty
\* detection list
UnnamedMappedEmpty ==
    /\ Len(frame_predictions_by_zone'[1]) = Len(frame_paths)
    /\ \A n \in DOMAIN frame_paths :
          ~Named(frame_paths[n]) =>
              frame_predictions_by_zone'[1][n] =
                  PredictedFrames(ParseInt(frame_paths[n].digits), <<>>,
                                  run_args.conf_threshold, 0)

\* C37: every result line is added to the detection list of the image named
\* by the last delimiter line before it and to no other list, a result line
\* before the first delimiter is dropped, a line that is neither changes
\* nothing, and an image in the scratch directory that no delimiter named is
\* mapped with an empty detection list.
C37_AttributedByLastDelimiter ==
    [][(LineRead => AttributedStep)
         /\ ((pc = "map" /\ pc' = "stitch") => UnnamedMappedEmpty)]_vars

\* two delimiters and then a result line were read: the detection is in the
\* list of the second image and the list of the first is empty
C37_Witness ==
    /\ Len(stdout_lines) = 3
    /\ stdout_lines[1] = DelimiterLine(FrameFilename(0, 1, 0))
    /\ stdout_lines[2] = DelimiterLine(FrameFilename(1, 1, 0))
    /\ stdout_lines[3] = ResultLine(GoodWord)
    /\ ocr_outputs[FrameFilename(0, 1, 0)] = <<>>
    /\ ocr_outputs[FrameFilename(1, 1, 0)] = CorrectedData(<<GoodWord>>)

\* a result line read before any delimiter is in no list
C37_ResultBeforeDelimiterDropped ==
    /\ Len(stdout_lines) >= 2
    /\ stdout_lines[1].kind = "result"
    /\ stdout_lines[2].kind = "delimiter"
    /\ \A image \in DOMAIN ocr_outputs : ocr_outputs[image] = <<>>

\* a second delimiter for the same image empties the list collected so far
C37_RepeatedDelimiterResets ==
    /\ Len(stdout_lines) = 3
    /\ stdout_lines[1] = DelimiterLine(FrameFilename(0, 1, 0))
    /\ stdout_lines[2].kind = "result"
    /\ stdout_lines[3] = stdout_lines[1]
    /\ ocr_outputs[FrameFilename(0, 1, 0)] = <<>>

---------------------------------------------------------------------------
(* The cross-zone merge over zones whose kept frames differ in length *)

SpanFrames == 3

\* both zones cover the same frame indices; a kept image of a zone stands for
\* one to three of them (the unsampled and the deduplicated ones after it)
InitSpan ==
    /\ video = CfrVideo(10)
    /\ args = [sim_threshold |-> 80, max_merge_gap_ms |-> 0,
               min_subtitle_duration_ms |-> 100]
    /\ validated_zones = <<ValidatedZone(CropZone(0, 0, 100, 40)),
                           ValidatedZone(CropZone(0, 80, 100, 40))>>
    /\ \E k1 \in KindSeqs(Kinds({T_AB}, {90}, {1, 3}), 1, SpanFrames) :
       \E k2 \in KindSeqs(Kinds({T_C}, {90}, {1, 2}), 1, SpanFrames) :
            /\ SpanSum(k1, Len(k1)) = SpanSum(k2, Len(k2))
            /\ pred_frames_zone1 = StitchedFrames(k1, 0, 0)
            /\ pred_frames_zone2 = StitchedFrames(k2, 1, 0)
    /\ MergeStart

SpecSpan == InitSpan /\ [][NextDual]_vars

\* the step of the cross-zone loop joins current_sub into the last Subtitle
JoinsAcrossZones ==
    /\ pc = "dual"
    /\ all_subs # <<>>
    /\ Len(merged_subs') = Len(merged_subs)

\* the largest end_index among the frames of `sub`
LargestEnd(sub) ==
    CHOOSE e \in {sub.frames[i].end_index : i \in DOMAIN sub.frames} :
        \A i \in DOMAIN sub.frames : sub.frames[i].end_index <= e

\* C33: after a cross-zone merge the accumulated Subtitle starts at the
\* smaller of the two index_start values and ends at the larger of the two
\* index_end values.
C33_MergedCoversBoth ==
    [][JoinsAcrossZones =>
          LET last_sub == Last(merged_subs)
              current_sub == Head(all_subs)
              merged == Last(merged_subs')
          IN  /\ index_start(merged) = Min2(index_start(last_sub), index_start(current_sub))
              /\ index_end(merged) = Max2(index_end(last_sub), index_end(current_sub))
      ]_vars

\* what the program keeps: the accumulated Subtitle starts at the smaller of
\* the two index_start values, which is that of the Subtitle accumulated so
\* far, holds the frames of both, and ends where its frame of the largest
\* start_index ends
C33_MergedEndsWithLatestStart ==
    [][JoinsAcrossZones =>
          LET last_sub == Last(merged_subs)
              current_sub == Head(all_subs)
              merged == Last(merged_subs')
          IN  /\ index_start(merged) = index_start(last_sub)
              /\ index_start(last_sub) <= index_start(current_sub)
              /\ Len(merged.frames) = Len(last_sub.frames) + Len(current_sub.frames)
              /\ \A i \in DOMAIN merged.frames :
                    merged.frames[i].start_index <= Last(merged.frames).start_index
              /\ index_end(merged) = Last(merged.frames).end_index
      ]_vars

\* an emitted Subtitle made of both zones ends before one of its frames does
C33_MergedEndsEarly ==
    /\ pc = "done"
    /\ \E k \in DOMAIN pred_subs :
          /\ \E i, j \in DOMAIN pred_subs[k].frames :
                pred_subs[k].frames[i].zone_index # pred_subs[k].frames[j].zone_index
          /\ index_end(pred_subs[k]) < LargestEnd(pred_subs[k])

---------------------------------------------------------------------------
(* The emitted list of one or two zones *)

NextEmit ==
    \/ ProcessZoneBegin
    \/ Pass1Step
    \/ FinalizeSubs
    \/ FilterSubs
    \/ Pass3Step
    \/ ZoneReturn
    \/ Combine
    \/ DualMergeStep
    \/ DualReturn
    \/ EmitSrt

SpecEmit == InitSpan /\ [][NextEmit]_vars

\* C34: in pred_subs, from one zone or from two, every Subtitle has
\* index_start <= index_end and starts after the index_end of the one before
\* it; the SRT blocks are numbered 1..n, each ends after it starts and none
\* starts before the one before it has ended.
C34_OrderedNonOverlapping ==
    /\ pc \in {"done", "emitted"} =>
          \A k \in DOMAIN pred_subs :
              /\ index_start(pred_subs[k]) <= index_end(pred_subs[k])
              /\ k > 1 => index_start(pred_subs[k]) > index_end(pred_subs[k - 1])
    /\ pc = "emitted" =>
          /\ Len(srt_lines) = Len(pred_subs)
          /\ \A k \in DOMAIN srt_lines :
                /\ srt_lines[k].number = k
                /\ SrtMs(srt_lines[k].start_time) < SrtMs(srt_lines[k].end_time)
                /\ k > 1 => SrtMs(srt_lines[k - 1].end_time)
                                <= SrtMs(srt_lines[k].start_time)

\* two blocks were emitted, the first for a Subtitle joined from both zones
C34_Witness ==
    /\ pc = "emitted"
    /\ Len(srt_lines) >= 2
    /\ \E i, j \in DOMAIN pred_subs[1].frames :
          pred_subs[1].frames[i].zone_index # pred_subs[1].frames[j].zone_index

\* blocks were emitted for the Subtitles of a single zone
C34_SingleZoneEmitted ==
    /\ pc = "emitted"
    /\ Len(srt_lines) >= 2
    /\ subs_zone2 = <<>>

---------------------------------------------------------------------------
(* Where the frames of two zones end up *)

PartFrames == 3

\* zone 0 carries two texts that are not similar in stretches of one or two
\* frame indices, zone 1 one text on one or two kept frames; a stretch of one
\* index is shorter than the minimum duration
InitPart ==
    /\ video = CfrVideo(10)
    /\ args = [sim_threshold |-> 80, max_merge_gap_ms |-> 100,
               min_subtitle_duration_ms |-> 200]
    /\ validated_zones = <<ValidatedZone(CropZone(0, 0, 100, 40)),
                           ValidatedZone(CropZone(0, 80, 100, 40))>>
    /\ \E k1 \in KindSeqs(Kinds({T_AB, T_Q}, {90}, {1, 2}), 1, PartFrames) :
       \E k2 \in KindSeqs(Kinds({T_C}, {90}, {1, 2, 3}), 1, 2) :
            /\ SpanSum(k1, Len(k1)) = SpanSum(k2, Len(k2))
            /\ pred_frames_zone1 = StitchedFrames(k1, 0, 0)
            /\ pred_frames_zone2 = StitchedFrames(k2, 1, 0)
    /\ MergeStart

SpecPart == InitPart /\ [][NextDual]_vars

\* the number of places the Subtitles of a list have for frames
RECURSIVE FramePlaces(_)
FramePlaces(list) ==
    IF list = <<>> THEN 0 ELSE Len(Head(list).frames) + FramePlaces(Tail(list))

\* no frame is held twice, by two Subtitles or by one
HeldOnce(list) == FramePlaces(list) = Cardinality(FramesOf(list))

\* the frames Pass 1 has visited in the running call
VisitedFrames ==
    {CurrentPredFrames[i] : i \in DOMAIN CurrentPredFrames} \ {pred_todo[i] : i \in DOMAIN pred_todo}

\* the frames of the Subtitles of Pass 1 that last the minimum
FramesLastingMin == FramesOf(SelectSeq(subs, DurationAtLeastMin))

\* C35: no frame is held by two Subtitles after any step of any pass or of
\* the cross-zone merge; after Pass 1 the Subtitles hold exactly the frames
\* with text and confidence > 0; Pass 2 and Pass 3 leave exactly the frames
\* of the Pass 1 Subtitles that last the minimum; the cross-zone merge
\* leaves the frames of both zones' Subtitles.
C35_FramesPartitioned ==
    /\ pc \in {"pass1", "filter"} =>
          /\ HeldOnce(subs)
          /\ FramesOf(subs) =
                {f \in VisitedFrames : f.text # <<>> /\ f.confidence > 0}
    /\ pc = "pass3" =>
          /\ HeldOnce(cleaned_subs \o filtered_subs)
          /\ FramesOf(cleaned_subs \o filtered_subs) = FramesLastingMin
    /\ pc \in {"combine", "dual", "done"} =>
          /\ HeldOnce(subs_zone1 \o subs_zone2)
          /\ FramesOf(subs_zone2) \subseteq FramesLastingMin
    /\ pc = "dual" =>
          /\ HeldOnce(merged_subs \o all_subs)
          /\ FramesOf(merged_subs \o all_subs) = FramesOf(subs_zone1 \o subs_zone2)
    /\ pc = "done" =>
          /\ HeldOnce(pred_subs)
          /\ FramesOf(pred_subs) = FramesOf(subs_zone1 \o subs_zone2)

\* a Subtitle of zone 0 was dropped as too short, its neighbours were joined
\* in Pass 3, and the emitted list holds a Subtitle of both zones
C35_Witness ==
    /\ pc = "done"
    /\ \E k \in DOMAIN subs_zone1 : \E i \in DOMAIN subs_zone1[k].frames :
          /\ i > 1
          /\ subs_zone1[k].frames[i].start_index
                > subs_zone1[k].frames[i - 1].end_index + 1
    /\ \E k \in DOMAIN pred_subs : \E i, j \in DOMAIN pred_subs[k].frames :
          pred_subs[k].frames[i].zone_index # pred_subs[k].frames[j].zone_index

---------------------------------------------------------------------------
(* The text of a Subtitle while Pass 1 runs *)

\* the Pass 1 loop visits a frame
VisitsFrame == pc = "pass1" /\ pred_todo # <<>>

\* the loop over finalize_text runs
FinalizesAll == pc = "pass1" /\ pc' = "filter"

\* the visited frame has text and confidence > 0 and a Subtitle exists
MayJoin ==
    /\ subs # <<>>
    /\ Head(pred_todo).text # <<>>
    /\ Head(pred_todo).confidence > 0

\* the visited frame is within the gap of the last Subtitle and similar to
\* the text of its first frame
SimilarToFirstFrame ==
    LET frame == Head(pred_todo)
        last_sub == Last(subs)
    IN  /\ is_gap_mergeable(last_sub, [frames |-> <<frame>>])
        /\ PartialRatio(StripSpaces(last_sub.frames[1].text), StripSpaces(frame.text))
              >= args.sim_threshold

\* C36: a step of Pass 1 leaves the text of every Subtitle as it was, which
\* is the text of the Subtitle's first frame; the visited frame joins the
\* last Subtitle exactly when it is within the gap and similar to that first
\* frame's text; the texts change once, in the loop over finalize_text after
\* the pass.
C36_TextFixedInPass1 ==
    [][/\ VisitsFrame =>
             /\ \A k \in DOMAIN subs : subs'[k].text = subs[k].text
             /\ \A k \in DOMAIN subs' : subs'[k].text = subs'[k].frames[1].text
             /\ MayJoin => ((Len(subs') = Len(subs)) <=> SimilarToFirstFrame)
       /\ FinalizesAll =>
             /\ Len(subs') = Len(subs)
             /\ \A k \in DOMAIN subs :
                   /\ subs'[k].frames = subs[k].frames
                   /\ subs'[k].text = finalize_text(subs[k]).text
      ]_vars

\* Pass 1 is under way and a Subtitle holds a frame whose text and higher
\* confidence differ from those of its first frame
C36_Witness ==
    /\ pc = "pass1"
    /\ pred_todo # <<>>
    /\ \E k \in DOMAIN subs : \E i \in DOMAIN subs[k].frames :
          /\ subs[k].frames[i].text # subs[k].frames[1].text
          /\ subs[k].frames[i].confidence > subs[k].frames[1].confidence
          /\ subs[k].text = subs[k].frames[1].text

\* after the pass a Subtitle carries a text that is not its first frame's
C36_FinalizedToOtherText ==
    /\ pc = "filter"
    /\ \E k \in DOMAIN subs : subs[k].text # subs[k].frames[1].text

---------------------------------------------------------------------------
(* VideOCR.py: the job queue of the GUI.  The event loop polls gui_queue    *)
(* and then handles one event of the window; run_batch_thread runs in a     *)
(* thread of its own, one statement group at a time.  A job is a record     *)
(* [id, output, status]: id stands for the identity of the dict, output for *)
(* args['output'].  Messages that only write to the log or the progress     *)
(* display are left out of gui_queue.                                       *)

MaxJobs == 2

MaxWorkers == 2

JobIds == 1..MaxJobs

WorkerIds == 1..MaxWorkers

\* the output paths the settings of the window can name
OutputPaths == 1..MaxJobs

\* process ids: the process a worker is running has the worker's number;
\* the id of a process that has ended is written StalePid wherever it is
\* still kept, since nothing tells two such ids apart
StalePid == MaxWorkers + 1

\* everything outside the GUI
cliVars == <<pc, mergeVars, runVars, pipeVars, ctorVars, sweepVars, inputVars>>

IdleWorker == [pc |-> "idle", job |-> 0, pid |-> 0, proc |-> "none"]

\* any(item['status'] == 'Pending' for item in queue)
HasPending(queue) == \E k \in DOMAIN queue : queue[k].status = "Pending"

\* the position of the first job of the queue with one of the statuses, 0 if
\* there is none
FirstWithStatus(queue, statuses) ==
    IF \E k \in DOMAIN queue : queue[k].status \in statuses
    THEN CHOOSE k \in DOMAIN queue :
            /\ queue[k].status \in statuses
            /\ \A j \in 1..(k - 1) : queue[j].status \notin statuses
    ELSE 0

\* job['status'] = status on the dict with the given identity; the dict may
\* have been taken out of the queue
SetStatus(queue, id, status) ==
    [k \in DOMAIN queue |->
        IF queue[k].id = id THEN [queue[k] EXCEPT !.status = status] ELSE queue[k]]

\* del batch_queue[idx]
DeleteAt(queue, idx) ==
    [k \in 1..(Len(queue) - 1) |-> IF k < idx THEN queue[k] ELSE queue[k + 1]]

\* the identities in use: the jobs of the queue and the jobs the workers hold
UsedJobIds ==
    {batch_queue[k].id : k \in DOMAIN batch_queue}
        \cup {workers[w].job : w \in WorkerIds}

\* a new dict with status Pending; the model has MaxJobs identities
NewJob(output) ==
    [id |-> CHOOSE i \in JobIds \ UsedJobIds : \A j \in JobIds \ UsedJobIds : i <= j,
     output |-> output, status |-> "Pending"]

\* the ids kept in messages after the process with id `pid` has ended
Ended(msgs, pid) ==
    [k \in DOMAIN msgs |->
        IF msgs[k].data = pid THEN [msgs[k] EXCEPT !.data = StalePid] ELSE msgs[k]]

\* the text update_run_and_cancel_button_state gives -BTN-RUN-
update_run_and_cancel_button_state(queue) ==
    IF HasPending(queue) THEN "Start Queue" ELSE "Run"

\* kill_process_tree: the process with this id, if it is running, is ended
kill_process_tree(ws, pid) ==
    [w \in WorkerIds |->
        IF ws[w].pid = pid /\ ws[w].proc \in {"running", "paused"}
        THEN [ws[w] EXCEPT !.proc = "killed"] ELSE ws[w]]

\* set_process_pause_state succeeds: psutil finds the process
ProcessExists(pid) ==
    \E w \in WorkerIds : workers[w].pid = pid /\ workers[w].proc \in {"running", "paused"}

\* set_process_pause_state(pid, pause) on the processes
set_process_pause_state(ws, pid, pause) ==
    [w \in WorkerIds |->
        IF ws[w].pid = pid /\ ws[w].proc \in {"running", "paused"}
        THEN [ws[w] EXCEPT !.proc = IF pause THEN "paused" ELSE "running"]
        ELSE ws[w]]

\* start_queue(window, queue_data), called at the end of a handler that
\* leaves queue_data in batch_queue and the processes as in ws
start_queue(queue_data, ws) ==
    /\ is_processing' = TRUE
    /\ IF ~HasPending(queue_data)
       THEN /\ workers' = ws
            /\ UNCHANGED <<disabled, pause_text, cancelled_by_user>>
       ELSE /\ disabled' = [disabled EXCEPT !["-BTN-BATCH-START-"] = TRUE,
                                            !["-BTN-RUN-"] = TRUE,
                                            !["-BTN-CANCEL-"] = FALSE,
                                            !["-BTN-PAUSE-"] = FALSE]
            /\ pause_text' = "Pause"
            /\ cancelled_by_user' = "False"
            /\ \E w \in WorkerIds :
                  /\ ws[w].pc = "idle"
                  /\ \A v \in 1..(w - 1) : ws[v].pc # "idle"
                  /\ workers' = [ws EXCEPT ![w].pc = "check"]

\* a thread can be started for the queue (the model has MaxWorkers of them)
CanStart(queue_data) ==
    HasPending(queue_data) => \E w \in WorkerIds : workers[w].pc = "idle"

---------------------------------------------------------------------------
(* run_batch_thread *)

\* while True: if getattr(window, 'cancelled_by_user', False): break
WorkerCheck(w) ==
    /\ workers[w].pc = "check"
    /\ workers' = [workers EXCEPT ![w].pc =
                        IF cancelled_by_user = "True" THEN "finish" ELSE "pick"]
    /\ UNCHANGED <<batch_queue, is_processing, cancelled_by_user, videocr_process_pid,
                   gui_queue, disabled, run_text, pause_text, video_path, gui_pc>>
    /\ UNCHANGED cliVars

\* current_job = next Pending job; without one the loop ends; else the job
\* becomes Processing and run_videocr starts the process and posts its pid
WorkerPick(w) ==
    /\ workers[w].pc = "pick"
    /\ LET k == FirstWithStatus(batch_queue, {"Pending"})
           pid == w
       IN  IF k = 0
           THEN /\ workers' = [workers EXCEPT ![w].pc = "finish"]
                /\ UNCHANGED <<batch_queue, gui_queue>>
           ELSE /\ batch_queue' = [batch_queue EXCEPT ![k].status = "Processing"]
                /\ workers' = [workers EXCEPT ![w] =
                                  [pc |-> "wait", job |-> batch_queue[k].id, pid |-> pid,
                                   proc |-> "running"]]
                /\ gui_queue' = Append(gui_queue,
                                       [event |-> "-PROCESS_STARTED-", data |-> pid])
    /\ UNCHANGED <<is_processing, cancelled_by_user, videocr_process_pid, disabled,
                   run_text, pause_text, video_path, gui_pc>>
    /\ UNCHANGED cliVars

\* the process ends, by itself with or without success or because it was
\* killed; run_videocr returns exit_code == 0, the job gets its status and
\* the loop goes back to its test
WorkerWait(w) ==
    /\ workers[w].pc = "wait"
    /\ workers[w].proc \in {"running", "killed"}
    /\ \E success \in IF workers[w].proc = "killed" THEN {FALSE} ELSE BOOLEAN :
          batch_queue' = SetStatus(batch_queue, workers[w].job,
                                   IF cancelled_by_user = "True" THEN "Cancelled"
                                   ELSE IF success THEN "Completed"
                                   ELSE "Error")
    /\ workers' = [workers EXCEPT ![w] = [IdleWorker EXCEPT !.pc = "check"]]
    /\ videocr_process_pid' =
          IF videocr_process_pid = workers[w].pid THEN StalePid ELSE videocr_process_pid
    /\ gui_queue' = Ended(gui_queue, workers[w].pid)
    /\ UNCHANGED <<is_processing, cancelled_by_user, disabled, run_text, pause_text,
                   video_path, gui_pc>>
    /\ UNCHANGED cliVars

\* gui_queue.put(('-BATCH-FINISHED-', None)); the thread ends
WorkerFinish(w) ==
    /\ workers[w].pc = "finish"
    /\ gui_queue' = Append(gui_queue, [event |-> "-BATCH-FINISHED-", data |-> 0])
    /\ workers' = [workers EXCEPT ![w] = IdleWorker]
    /\ UNCHANGED <<batch_queue, is_processing, cancelled_by_user, videocr_process_pid,
                   disabled, run_text, pause_text, video_path, gui_pc>>
    /\ UNCHANGED cliVars

---------------------------------------------------------------------------
(* The event loop *)

\* the attributes and buttons of the window the message handlers write
Window ==
    [is_processing |-> is_processing, cancelled_by_user |-> cancelled_by_user,
     videocr_process_pid |-> videocr_process_pid, disabled |-> disabled,
     run_text |-> run_text, pause_text |-> pause_text]

\* the handler of one message
HandleMessage(win, msg) ==
    IF msg.event = "-PROCESS_STARTED-"
    THEN [win EXCEPT !.videocr_process_pid = msg.data,
                     !.disabled = [@ EXCEPT !["-BTN-RUN-"] = TRUE,
                                            !["-BTN-CANCEL-"] = FALSE]]
    ELSE [win EXCEPT !.is_processing = FALSE,
                     !.disabled = [@ EXCEPT !["-BTN-BATCH-START-"] = FALSE,
                                            !["-BTN-RUN-"] = FALSE,
                                            !["-BTN-PAUSE-"] = TRUE,
                                            !["-BTN-CANCEL-"] = TRUE],
                     !.pause_text = "Pause",
                     !.videocr_process_pid = 0,
                     !.run_text = update_run_and_cancel_button_state(batch_queue),
                     !.cancelled_by_user = "absent"]

\* while True: gui_queue.get_nowait() until queue.Empty
RECURSIVE Drain(_, _)
Drain(win, msgs) ==
    IF msgs = <<>> THEN win ELSE Drain(HandleMessage(win, Head(msgs)), Tail(msgs))

\* window.read has returned; the messages of the workers are handled
PollQueue ==
    /\ gui_pc = "poll"
    /\ LET win == Drain(Window, gui_queue)
       IN  /\ is_processing' = win.is_processing
           /\ cancelled_by_user' = win.cancelled_by_user
           /\ videocr_process_pid' = win.videocr_process_pid
           /\ disabled' = win.disabled
           /\ run_text' = win.run_text
           /\ pause_text' = win.pause_text
    /\ gui_queue' = <<>>
    /\ gui_pc' = "event"
    /\ UNCHANGED <<batch_queue, video_path, workers>>
    /\ UNCHANGED cliVars

\* window.read timed out: no event to handle
EvTimeout ==
    /\ gui_pc = "event"
    /\ gui_pc' = "poll"
    /\ UNCHANGED <<batch_queue, is_processing, cancelled_by_user, videocr_process_pid,
                   gui_queue, disabled, run_text, pause_text, video_path, workers>>
    /\ UNCHANGED cliVars

\* -VIDEO-LIST-: a video is chosen; its first frame can be read or not
EvVideoList ==
    /\ gui_pc = "event"
    /\ video_path' = TRUE
    /\ \E loaded \in BOOLEAN :
          disabled' = [disabled EXCEPT !["-BTN-RUN-"] = ~(loaded /\ ~is_processing)]
    /\ gui_pc' = "poll"
    /\ UNCHANGED <<batch_queue, is_processing, cancelled_by_user, videocr_process_pid,
                   gui_queue, run_text, pause_text, workers>>
    /\ UNCHANGED cliVars

\* -BTN-ADD-BATCH-: a Pending job for the settings of the window, unless a
\* job of the queue has the same output
EvAddBatch ==
    /\ gui_pc = "event"
    /\ \E output \in OutputPaths :
          IF ~video_path \/ \E k \in DOMAIN batch_queue : batch_queue[k].output = output
          THEN UNCHANGED <<batch_queue, run_text>>
          ELSE /\ JobIds \ UsedJobIds # {}
               /\ LET queue == Append(batch_queue, NewJob(output))
                  IN  /\ batch_queue' = queue
                      /\ run_text' = update_run_and_cancel_button_state(queue)
    /\ gui_pc' = "poll"
    /\ UNCHANGED <<is_processing, cancelled_by_user, videocr_process_pid, gui_queue,
                   disabled, pause_text, video_path, workers>>
    /\ UNCHANGED cliVars

\* -BTN-BATCH-START-
EvBatchStart ==
    /\ gui_pc = "event"
    /\ ~disabled["-BTN-BATCH-START-"]
    /\ CanStart(batch_queue)
    /\ start_queue(batch_queue, workers)
    /\ gui_pc' = "poll"
    /\ UNCHANGED <<batch_queue, videocr_process_pid, gui_queue, run_text, video_path>>
    /\ UNCHANGED cliVars

\* -BTN-RUN-: with the text Start Queue the queue is started; else a job for
\* the settings of the window is added, or a finished job with the same
\* output is made Pending again after the popup, and the queue is started
EvRun ==
    /\ gui_pc = "event"
    /\ ~disabled["-BTN-RUN-"]
    /\ IF run_text = "Start Queue"
       THEN /\ CanStart(batch_queue)
            /\ start_queue(batch_queue, workers)
            /\ UNCHANGED batch_queue
       ELSE IF ~video_path \/ videocr_process_pid # 0
       THEN UNCHANGED <<batch_queue, is_processing, cancelled_by_user, disabled,
                        pause_text, workers>>
       ELSE \E output \in OutputPaths : \E choice \in {"Yes", "No"} :
               LET k == IF \E j \in DOMAIN batch_queue : batch_queue[j].output = output
                        THEN CHOOSE j \in DOMAIN batch_queue :
                                /\ batch_queue[j].output = output
                                /\ \A i \in 1..(j - 1) : batch_queue[i].output # output
                        ELSE 0
                   finished == k # 0 /\ batch_queue[k].status
                                            \in {"Cancelled", "Error", "Completed"}
               IN  IF finished /\ choice = "No"
                   THEN UNCHANGED <<batch_queue, is_processing, cancelled_by_user,
                                    disabled, pause_text, workers>>
                   ELSE IF finished
                   THEN LET queue == [batch_queue EXCEPT ![k].status = "Pending"]
                        IN  /\ batch_queue' = queue
                            /\ CanStart(queue)
                            /\ start_queue(queue, workers)
                   ELSE /\ JobIds \ UsedJobIds # {}
                        /\ LET queue == Append(batch_queue, NewJob(output))
                           IN  /\ batch_queue' = queue
                               /\ CanStart(queue)
                               /\ start_queue(queue, workers)
    /\ gui_pc' = "poll"
    /\ UNCHANGED <<videocr_process_pid, gui_queue, run_text, video_path>>
    /\ UNCHANGED cliVars

\* -BTN-PAUSE- / -BTN-BATCH-PAUSE-
EvPause ==
    /\ gui_pc = "event"
    /\ ~disabled["-BTN-PAUSE-"]
    /\ IF videocr_process_pid = 0 \/ ~ProcessExists(videocr_process_pid)
       THEN UNCHANGED <<batch_queue, pause_text, workers>>
       ELSE IF pause_text = "Resume"
       THEN /\ workers' = set_process_pause_state(workers, videocr_process_pid, FALSE)
            /\ pause_text' = "Pause"
            /\ batch_queue' =
                  LET k == FirstWithStatus(batch_queue, {"Paused"})
                  IN  IF k = 0 THEN batch_queue
                      ELSE [batch_queue EXCEPT ![k].status = "Processing"]
       ELSE /\ workers' = set_process_pause_state(workers, videocr_process_pid, TRUE)
            /\ pause_text' = "Resume"
            /\ batch_queue' =
                  LET k == FirstWithStatus(batch_queue, {"Processing"})
                  IN  IF k = 0 THEN batch_queue
                      ELSE [batch_queue EXCEPT ![k].status = "Paused"]
    /\ gui_pc' = "poll"
    /\ UNCHANGED <<is_processing, cancelled_by_user, videocr_process_pid, gui_queue,
                   disabled, run_text, video_path>>
    /\ UNCHANGED cliVars

\* -BTN-BATCH-RESET- on the selected row
EvBatchReset ==
    /\ gui_pc = "event"
    /\ \E idx \in DOMAIN batch_queue :
          IF batch_queue[idx].status \in {"Cancelled", "Error", "Completed"}
          THEN LET queue == [batch_queue EXCEPT ![idx].status = "Pending"]
               IN  /\ batch_queue' = queue
                   /\ run_text' = update_run_and_cancel_button_state(queue)
          ELSE UNCHANGED <<batch_queue, run_text>>
    /\ gui_pc' = "poll"
    /\ UNCHANGED <<is_processing, cancelled_by_user, videocr_process_pid, gui_queue,
                   disabled, pause_text, video_path, workers>>
    /\ UNCHANGED cliVars

\* -BTN-BATCH-EDIT- on the selected row, whose video file exists and can be
\* read: the job's video and settings are loaded into the window and the job
\* is taken out of the queue
EvBatchEdit ==
    /\ gui_pc = "event"
    /\ \E idx \in DOMAIN batch_queue :
          LET queue == DeleteAt(batch_queue, idx)
          IN  /\ batch_queue' = queue
              /\ run_text' = update_run_and_cancel_button_state(queue)
    /\ video_path' = TRUE
    /\ disabled' = [disabled EXCEPT !["-BTN-RUN-"] = FALSE]
    /\ gui_pc' = "poll"
    /\ UNCHANGED <<is_processing, cancelled_by_user, videocr_process_pid, gui_queue,
                   pause_text, workers>>
    /\ UNCHANGED cliVars

\* -BTN-CANCEL- / -BTN-BATCH-STOP-
EvCancel ==
    /\ gui_pc = "event"
    /\ ~disabled["-BTN-CANCEL-"]
    /\ IF videocr_process_pid # 0
       THEN /\ cancelled_by_user' = "True"
            /\ workers' = kill_process_tree(
                              IF pause_text = "Resume"
                              THEN set_process_pause_state(workers, videocr_process_pid, FALSE)
                              ELSE workers,
                              videocr_process_pid)
            /\ videocr_process_pid' = 0
            /\ UNCHANGED disabled
       ELSE /\ disabled' = [disabled EXCEPT !["-BTN-CANCEL-"] = TRUE,
                                            !["-BTN-RUN-"] = ~video_path]
            /\ UNCHANGED <<cancelled_by_user, workers, videocr_process_pid>>
    /\ gui_pc' = "poll"
    /\ UNCHANGED <<batch_queue, is_processing, gui_queue, run_text, pause_text, video_path>>
    /\ UNCHANGED cliVars

\* the window as the layout builds it, before the first window.read
InitGui ==
    /\ pc = "gui"
    /\ source = <<>>
    /\ ctor_time_end = <<>>
    /\ stopped_early = FALSE
    /\ cli_args = <<>>
    /\ run_args = <<>>
    /\ NotConstructed
    /\ batch_queue = <<>>
    /\ is_processing = FALSE
    /\ cancelled_by_user = "absent"
    /\ videocr_process_pid = 0
    /\ gui_queue = <<>>
    /\ disabled = [b \in {"-BTN-RUN-", "-BTN-BATCH-START-", "-BTN-CANCEL-", "-BTN-PAUSE-"}
                     |-> b \in {"-BTN-CANCEL-", "-BTN-PAUSE-"}]
    /\ run_text = "Run"
    /\ pause_text = "Pause"
    /\ video_path = FALSE
    /\ workers = [w \in WorkerIds |-> IdleWorker]
    /\ gui_pc = "poll"

NextGui ==
    \/ PollQueue
    \/ EvTimeout
    \/ EvVideoList
    \/ EvAddBatch
    \/ EvBatchStart
    \/ EvRun
    \/ EvPause
    \/ EvBatchReset
    \/ EvBatchEdit
    \/ EvCancel
    \/ \E w \in WorkerIds : WorkerCheck(w)
    \/ \E w \in WorkerIds : WorkerPick(w)
    \/ \E w \in WorkerIds : WorkerWait(w)
    \/ \E w \in WorkerIds : WorkerFinish(w)

SpecGui == InitGui /\ [][NextGui]_vars

---------------------------------------------------------------------------
(* The queue has one worker and one job at work *)

\* the threads of run_batch_thread that have not ended
RunningWorkers == {w \in WorkerIds : workers[w].pc # "idle"}

\* the jobs of the queue the engine is at work on
ActiveJobs ==
    {k \in DOMAIN batch_queue : batch_queue[k].status \in {"Processing", "Paused"}}

\* C38: whatever the user clicks (Run, Start Queue, Edit, Reset, Pause or
\* Resume, Cancel) and however the worker thread is scheduled in between, at
\* most one thread of run_batch_thread is running and at most one job of the
\* queue has the status Processing or Paused.
C38_OneWorkerOneActiveJob ==
    /\ Cardinality(RunningWorkers) <= 1
    /\ Cardinality(ActiveJobs) <= 1

\* at most one thread of run_batch_thread is running
C38_OneWorker == Cardinality(RunningWorkers) <= 1

\* at most one job is Processing or Paused
C38_OneActiveJob == Cardinality(ActiveJobs) <= 1

\* two engine processes are running, each for a job of the queue that is
\* Processing
C38_TwoEnginesAtWork ==
    /\ \A w \in WorkerIds : workers[w].proc = "running"
    /\ \A w \in WorkerIds : \E k \in ActiveJobs : batch_queue[k].id = workers[w].job
    /\ Cardinality(ActiveJobs) = 2

---------------------------------------------------------------------------
(* Cancelling the queue *)

\* a thread of run_batch_thread starts the engine for a Pending job
StartsJob ==
    \E w \in WorkerIds : workers[w].pc = "pick" /\ workers'[w].pc = "wait"

\* the job of a thread whose engine was killed gets the status Cancelled
KilledJobCancelled ==
    \A w \in WorkerIds :
        (WorkerWait(w) /\ workers[w].proc = "killed")
            => \A k \in DOMAIN batch_queue :
                  batch_queue[k].id = workers[w].job
                      => batch_queue'[k].status = "Cancelled"

\* a -BATCH-FINISHED- message waits in gui_queue
FinishedPending ==
    \E k \in DOMAIN gui_queue : gui_queue[k].event = "-BATCH-FINISHED-"

\* C39: once the user has cancelled the running queue (cancelled_by_user is
\* True) the worker thread starts no further Pending job; a job whose engine
\* was killed ends with the status Cancelled; and handling -BATCH-FINISHED-
\* removes the flag, so that the next queue starts uncancelled.
C39_CancelStopsQueue ==
    [][((cancelled_by_user = "True") => ~StartsJob)
          /\ KilledJobCancelled
          /\ ((PollQueue /\ FinishedPending) => (cancelled_by_user' = "absent"))]_vars

\* the first part alone: no job is started while cancelled_by_user is True
C39_NoJobStartedAfterCancel ==
    [][(cancelled_by_user = "True") => ~StartsJob]_vars

\* the second part alone
C39_KilledJobEndsCancelled == [][KilledJobCancelled]_vars

\* the last part alone: the handler of -BATCH-FINISHED- removes the flag
C39_FlagClearedByFinished ==
    [][(PollQueue /\ FinishedPending) => (cancelled_by_user' = "absent")]_vars

\* an engine that was not killed is running while cancelled_by_user is True:
\* its job will be marked Cancelled even if it runs to its end
C39_EngineRunsAfterCancel ==
    \E w \in WorkerIds :
        /\ workers[w].pc = "wait"
        /\ workers[w].proc = "running"
        /\ cancelled_by_user = "True"

---------------------------------------------------------------------------
(* is_processing *)

\* C40: while window.is_processing is True a thread of run_batch_thread is
\* running or its -BATCH-FINISHED- message is still in gui_queue, so that
\* the flag will be set back to False -- also after start_queue was called
\* without a Pending job.
C40_ProcessingHasWorker ==
    is_processing => (RunningWorkers # {} \/ FinishedPending)

\* start_queue was called with an empty queue: is_processing is True, no
\* thread runs and no message is under way
C40_ProcessingWithoutWorker ==
    /\ is_processing
    /\ batch_queue = <<>>
    /\ RunningWorkers = {}
    /\ gui_queue = <<>>

\* a video loaded while is_processing is True leaves -BTN-RUN- disabled
C40_RunStaysDisabled ==
    [][(EvVideoList /\ is_processing) => disabled'["-BTN-RUN-"]]_vars

\* without a thread and without a message the flag stays True until a thread
\* is started
C40_FlagStaysWithoutWorker ==
    [][(is_processing /\ RunningWorkers = {} /\ ~FinishedPending
           /\ RunningWorkers' = {})
          => is_processing']_vars

---------------------------------------------------------------------------
(* The whole program: run_ocr followed by get_subtitles *)

Init == InitRun

Next ==
    \/ RunBegin
    \/ MakeTempDir
    \/ CaptureOpen
    \/ SampleStep
    \/ StartEngine
    \/ EngineRun
    \/ MapFrames
    \/ Stitch
    \/ GetSubtitles
    \/ ProcessZoneBegin
    \/ Pass1Step
    \/ FinalizeSubs
    \/ FilterSubs
    \/ Pass3Step
    \/ ZoneReturn
    \/ Combine
    \/ DualMergeStep
    \/ DualReturn
    \/ EmitSrt

Spec == Init /\ [][Next]_vars

\* C13: once the engine has exited with a non-zero code the run is over:
\* pred_frames_zone1 and pred_frames_zone2 hold no frame, there is no
\* Subtitle and no SRT block, whatever the engine printed before.
C13_AbortOnEngineFailure ==
    exit_code # 0 =>
        /\ pc = "exited"
        /\ pred_frames_zone1 = <<>>
        /\ pred_frames_zone2 = <<>>
        /\ pred_subs = <<>>
        /\ srt_lines = <<>>

\* the engine printed a detection for an image and then exited with code 1
C13_Witness ==
    /\ pc = "exited"
    /\ exit_code = 1
    /\ \E path \in DOMAIN ocr_outputs : ocr_outputs[path] # <<>>
    /\ pred_frames_zone1 = <<>>
    /\ pred_subs = <<>>

=============================================================================
